---- MODULE Spec2Model ----
(***************************************************************************)
(* MLPA device-attestation engine: the challenge store                     *)
(* (generate_client_challenge, validate_challenge), enrollment             *)
(* (verify_attest) and assertion verification (verify_assert) of           *)
(* mlpa/core/routers/appattest/appattest.py over the two tables of         *)
(* mlpa/core/pg_services/app_attest_pg_service.py.                         *)
(*                                                                         *)
(* Every `await` of a storage call is a suspension point: one action of    *)
(* the model runs a coroutine from one storage call up to the next one.    *)
(* Every storage method wraps its statement in try/except and only logs    *)
(* the error, so a storage call has two outcomes, "ok" and "error".        *)
(*                                                                         *)
(* On top of the engine: the routes GET /verify/challenge and POST         *)
(* /verify/attest of mlpa/core/routers/appattest/middleware.py, the        *)
(* dispatcher authorize_request of mlpa/core/auth/authorize.py, and the    *)
(* error handling of get_completion in mlpa/core/completions.py.           *)
(*                                                                         *)
(* middleware.py passes verify_attest and verify_assert a fifth argument,  *)
(* bundle_id, and passes verify_assert the hash of the request body where  *)
(* appattest.py takes the payload and hashes it. The routes are modelled   *)
(* as reaching the bodies of appattest.py: bundle_id only names the app    *)
(* the verifier is configured for, and either way the verifier compares    *)
(* one hash of the request with the assertion.                             *)
(*                                                                         *)
(* The rest of the gateway, each part with a specification of its own:     *)
(* stream_completion (SpecStream), the MLPA access token of                *)
(* mlpa/core/utils.py (SpecBearer), POST /verify/play (SpecPlay),          *)
(* fxa_auth over its scopes (SpecFxa), the middleware of                   *)
(* mlpa/core/middleware (SpecHttp), and block_user with the chat handler   *)
(* of mlpa/run.py (SpecChat). get_completion, stream_completion and        *)
(* chat_completion use counters of prometheus_metrics that the file of     *)
(* that name does not define, and run.py does not call                     *)
(* register_middleware; the metrics are taken as defined with the labels   *)
(* of their call sites, and the app as set up by register_middleware.      *)
(*                                                                         *)
(* The services the handlers share: the root CA of _load_root_ca and its   *)
(* lru_cache (SpecTrust), the prepared statements a PGService caches per   *)
(* connection object (SpecPg), and the budget get_or_create_user gives a   *)
(* new customer (SpecLitellm). PG_PREPARED_STMT_CACHE_MAX_SIZE is read     *)
(* from env and config.py does not define it; it is a small number here.   *)
(***************************************************************************)
EXTENDS Integers, FiniteSets, Sequences, TLC

(* ---------------- bounds of the model ---------------- *)
NumKeys == 1         \* distinct key_id_b64 values
MaxCounter == 2      \* authenticator counters range over 0..MaxCounter
MaxPem == 1          \* distinct device public keys
MaxChallenges == 2   \* os.urandom(32) draws (each one a fresh value)
MaxTime == 301       \* the clock stops here
MaxChunks == 2       \* chunks of a streamed body
MLPA_ACCESS_TOKEN_TTL_SECONDS == 2   \* the env setting, in seconds
MaxTokenTime == 64   \* the clock of the access tokens stops here
MaxScopes == 3       \* scopes in FXA_SCOPES (the code allows 1 to 4)
MAX_REQUEST_SIZE_BYTES == 2   \* the env setting, in bytes
PG_PREPARED_STMT_CACHE_MAX_SIZE == 2   \* the env setting, in statements
MaxConnections == 3  \* connection objects a pool hands out, in all
MaxLive == 1         \* connection objects that exist at the same time
MaxIds == 2          \* values id() can give to a connection object

(* ---------------- program constants ---------------- *)
CHALLENGE_EXPIRY_SECONDS == 300

\* Two requests are served at a time: the races of this module are races
\* of a pair of coroutines on one row.
Procs == {1, 2}
Keys == 1..NumKeys
Counters == 0..MaxCounter
Pems == 1..MaxPem
\* The clock advances by one TTL or by one second more than a TTL, so that
\* ages just below, at and just above the TTL all occur.
\* The values of the use-app-attest and use-play-integrity headers
\* (bool | None), the service types of the configuration, and the subjects
\* of access tokens and FxA profiles. An identity is a str, written as the
\* pair of where it comes from and which one it is.
Flags == {"None", "true", "false"}
ServiceTypes == {"ai", "s2s"}
Subjects == {<<"sub", 1>>}
FxaUsers == {<<"user", 1>>}

TickSteps == {CHALLENGE_EXPIRY_SECONDS, CHALLENGE_EXPIRY_SECONDS + 1}

VARIABLES
    challenges,     \* table challenges: key_id_b64 -> [challenge, created_at]
    public_keys,    \* table public_keys: key_id_b64 -> [public_key_pem, counter]
    now,            \* time.time() / NOW()
    urandom,        \* number of values os.urandom has produced so far
    proc,           \* the coroutine of each request
    attested,       \* history: keys for which verify_attest returned success
    request,        \* the route handler of each request and its response
    completion,     \* a get_completion call: the backend's answer, the outcome
    stream,         \* a stream_completion call: the generator and what it yielded
    bearer,         \* MLPA access tokens: the one issued, the one presented
    play,           \* a POST /verify/play request: Google's answer, the response
    fxa,            \* an fxa_auth call: its tasks, what it awaited, its result
    http,           \* a request on its way through the middleware to its route
    end_users,      \* table LiteLLM_EndUserTable: user_id -> [blocked]
    chat,           \* the chat_completion handler of each request
    admin,          \* history: the last block_user call and the table it found
    trust,          \* env.APP_ATTEST_QA, the cache of _load_root_ca, the roots used
    pg,             \* a PGService: its connection objects, its statement caches
    litellm         \* LiteLLM's customers and the last get_or_create_user call

\* The variables of the App Attest engine and its routes, and those of the
\* rest of the gateway.
attest_vars == <<challenges, public_keys, now, urandom, proc, attested, request>>
call_vars == <<completion, stream, bearer, play, fxa, http>>

\* The variables of user management and of the chat handler.
chat_vars == <<end_users, chat, admin>>

\* The variables of the services the handlers share.
service_vars == <<trust, pg, litellm>>

gateway_vars == <<call_vars, chat_vars, service_vars>>

vars == <<attest_vars, gateway_vars>>

\* Python's None / a fetched row: the empty tuple or a one-element tuple.
None == <<>>
Row(r) == <<r>>

\* The outcomes of one storage call: the statement ran, or asyncpg raised.
DbOutcomes == {"ok", "error"}

\* A request: where its coroutine stands (pc), the call it runs (op), the
\* arguments and locals the rest of the call reads, what it returned or raised
\* (ret, with the detail text of a raised HTTPException), what it wrote with
\* logger.error (log), and as history the requests
\* whose calls ran while this one did (overlaps).
Idle ==
    [pc |-> "idle", op |-> "none", key_id_b64 |-> 0, challenge |-> 0,
     stored_challenge |-> None, pem |-> 0, counter |-> 0,
     ret |-> "None", detail |-> "none", log |-> "none", overlaps |-> {}]

\* The requests whose coroutine is suspended in a storage call.
InFlight == {q \in Procs : proc[q].pc \notin {"idle", "done"}}

\* Request p enters a call as rec. History: the call and the calls that are
\* suspended at that moment overlap in time.
Begin(p, rec) ==
    [q \in Procs |->
        IF q = p THEN [rec EXCEPT !.overlaps = InFlight]
        ELSE IF q \in InFlight THEN [proc[q] EXCEPT !.overlaps = @ \cup {p}]
        ELSE proc[q]]

(* ---------------- AppAttestPGService ---------------- *)

\* INSERT ... ON CONFLICT (key_id_b64) DO UPDATE SET challenge, created_at = NOW()
store_challenge(tbl, k, c, t) ==
    [x \in (DOMAIN tbl) \cup {k} |->
        IF x = k THEN [challenge |-> c, created_at |-> t] ELSE tbl[x]]

\* SELECT challenge, created_at FROM challenges WHERE key_id_b64 = $1
\* (None when there is no row, and when the call raised)
get_challenge(tbl, k, out) ==
    IF out = "ok" /\ k \in DOMAIN tbl THEN Row(tbl[k]) ELSE None

\* DELETE FROM challenges WHERE key_id_b64 = $1
delete_challenge(tbl, k) ==
    [x \in (DOMAIN tbl) \ {k} |-> tbl[x]]

\* INSERT ... ON CONFLICT (key_id_b64) DO UPDATE SET public_key_pem, counter
store_key(tbl, k, pem, c) ==
    [x \in (DOMAIN tbl) \cup {k} |->
        IF x = k THEN [public_key_pem |-> pem, counter |-> c] ELSE tbl[x]]

\* SELECT public_key_pem, counter FROM public_keys WHERE key_id_b64 = $1
get_key(tbl, k, out) ==
    IF out = "ok" /\ k \in DOMAIN tbl THEN Row(tbl[k]) ELSE None

\* UPDATE public_keys SET counter = $2 WHERE key_id_b64 = $1 AND counter < $2
\* update_key_counter without "AND counter < $2" (as written in the test
\* double MockAppAttestPGService).
update_key_counter_unconditional(tbl, k, c) ==
    [x \in DOMAIN tbl |->
        IF x = k THEN [tbl[x] EXCEPT !.counter = c] ELSE tbl[x]]

update_key_counter(tbl, k, c) ==
    [x \in DOMAIN tbl |->
        IF x = k /\ tbl[x].counter < c
        THEN [tbl[x] EXCEPT !.counter = c]
        ELSE tbl[x]]

\* What a storage write leaves in the table: the statement's effect, or
\* nothing when the call raised (the except clause only logs).
Written(out, tbl, new) == IF out = "ok" THEN new ELSE tbl

(* ---------------- challenge store ---------------- *)

\* not stored_challenge or time.time() - created_at > CHALLENGE_EXPIRY_SECONDS
\* The staleness test without its expiry half.
Stale_no_expiry(stored, t) ==
    stored = None

Stale(stored, t) ==
    \/ stored = None
    \/ t - stored[1].created_at > CHALLENGE_EXPIRY_SECONDS

\* generate_client_challenge up to its store_challenge call: read the row;
\* a live row is returned as it is, otherwise a fresh value is drawn.
IssueGet(p, k, out) ==
    /\ proc[p].pc = "idle"
    /\ LET stored == get_challenge(challenges, k, out) IN
        IF Stale(stored, now)
        THEN /\ urandom < MaxChallenges
             /\ urandom' = urandom + 1
             /\ proc' = Begin(p,
                    [Idle EXCEPT !.pc = "issue_store", !.op = "issue",
                                 !.key_id_b64 = k, !.challenge = urandom + 1])
        ELSE /\ urandom' = urandom
             /\ proc' = Begin(p,
                    [Idle EXCEPT !.pc = "done", !.op = "issue",
                                 !.key_id_b64 = k,
                                 !.challenge = stored[1].challenge,
                                 !.ret = "challenge"])
    /\ UNCHANGED <<challenges, public_keys, now, attested>>

\* generate_client_challenge from store_challenge to its return.
IssueStore(p, out) ==
    /\ proc[p].pc = "issue_store"
    /\ challenges' = Written(out, challenges,
            store_challenge(challenges, proc[p].key_id_b64, proc[p].challenge, now))
    /\ proc' = [proc EXCEPT ![p].pc = "done", ![p].ret = "challenge"]
    /\ UNCHANGED <<public_keys, now, urandom, attested>>

\* The value validate_challenge returns, computed after its delete.
is_valid(stored, challenge, t) ==
    IF Stale(stored, t) THEN FALSE ELSE challenge = stored[1].challenge

\* validate_challenge up to its delete_challenge call.
ValidateGet(p, k, c, out) ==
    /\ proc[p].pc = "idle"
    /\ proc' = Begin(p,
            [Idle EXCEPT !.pc = "validate_delete", !.op = "validate",
                         !.key_id_b64 = k, !.challenge = c,
                         !.stored_challenge = get_challenge(challenges, k, out)])
    /\ UNCHANGED <<challenges, public_keys, now, urandom, attested>>

\* validate_challenge from delete_challenge to its return.
ValidateDelete(p, out) ==
    /\ proc[p].pc = "validate_delete"
    /\ challenges' = Written(out, challenges,
            delete_challenge(challenges, proc[p].key_id_b64))
    /\ proc' = [proc EXCEPT
            ![p].pc = "done", ![p].stored_challenge = None,
            ![p].ret = IF is_valid(proc[p].stored_challenge, proc[p].challenge, now)
                       THEN "True" ELSE "False"]
    /\ UNCHANGED <<public_keys, now, urandom, attested>>

(* ---------------- enrollment and assertion ---------------- *)

\* What the caller sends as attestation object: whether Attestation.verify
\* and the parse of its authenticator data go through, and the public key
\* and counter that authenticator data carries.
AttestationKinds == {"valid", "chain_error", "malformed", "not_p256"}

Attestations ==
    [kind : {"valid"}, pem : Pems, counter : Counters]
        \cup [kind : AttestationKinds \ {"valid"}, pem : {0}, counter : {0}]

\* attest_error handing the ValueError of the curve test to the caller.
attest_error_leaking(kind) ==
    IF kind = "not_p256"
    THEN [status_code |-> "403",
          detail |-> "Public key is not a P-256 elliptic curve key."]
    ELSE [status_code |-> "403", detail |-> "Attestation verification failed"]

\* except Exception: raise HTTPException(403, "Attestation verification
\* failed"), whatever the try block raised.
attest_error(kind) ==
    [status_code |-> "403", detail |-> "Attestation verification failed"]

\* verify_attest up to its store_key call: the try block. Its one await,
\* of the thread that runs Attestation.verify, touches no storage.
AttestVerify(p, k, att) ==
    /\ proc[p].pc = "idle"
    /\ proc' = Begin(p,
            IF att.kind = "valid"
            THEN [Idle EXCEPT !.pc = "attest_store", !.op = "attest",
                              !.key_id_b64 = k, !.pem = att.pem,
                              !.counter = att.counter]
            ELSE [Idle EXCEPT !.pc = "done", !.op = "attest",
                              !.key_id_b64 = k,
                              !.ret = attest_error(att.kind).status_code,
                              !.detail = attest_error(att.kind).detail,
                              !.log = att.kind])
    /\ UNCHANGED <<challenges, public_keys, now, urandom, attested>>

\* verify_attest from store_key to its return.
AttestStore(p, out) ==
    /\ proc[p].pc = "attest_store"
    /\ public_keys' = Written(out, public_keys,
            store_key(public_keys, proc[p].key_id_b64, proc[p].pem, proc[p].counter))
    /\ proc' = [proc EXCEPT ![p].pc = "done", ![p].ret = "success"]
    /\ attested' = attested \cup {proc[p].key_id_b64}
    /\ UNCHANGED <<challenges, now, urandom>>

\* Assertion.verify with the stored public key: the signature is the
\* device key's (signer 0 stands for an assertion nobody's key signed).
signature_ok(key_record, signer) ==
    signer = key_record[1].public_key_pem

\* The replay test with < in place of <=.
replayed_strict(current_counter, last_counter) ==
    current_counter < last_counter

\* if current_counter <= last_counter: raise 403
replayed(current_counter, last_counter) ==
    current_counter <= last_counter

\* What the caller sends as assertion: the key that signed it, whether its
\* authenticator data parses, and the counter in it.
Assertions ==
    [signer : {0} \cup Pems, parsable : {TRUE}, counter : Counters]
        \cup [signer : {0} \cup Pems, parsable : {FALSE}, counter : {0}]

\* assert_checks without the raise for a missing record.
assert_checks_no_record_check(key_record, assertion) ==
    IF key_record = None THEN "none"
    ELSE IF ~signature_ok(key_record, assertion.signer) THEN "verification_failed"
    ELSE IF ~assertion.parsable THEN "counter_parsing_failed"
    ELSE IF replayed(assertion.counter, key_record[1].counter) THEN "counter_replay"
    ELSE "none"

\* What verify_assert logs before it raises its 403, or "none" when the
\* assertion passes every check that precedes the counter update.
assert_checks(key_record, assertion) ==
    IF key_record = None THEN "no_public_key"
    ELSE IF ~signature_ok(key_record, assertion.signer) THEN "verification_failed"
    ELSE IF ~assertion.parsable THEN "counter_parsing_failed"
    ELSE IF replayed(assertion.counter, key_record[1].counter) THEN "counter_replay"
    ELSE "none"

\* The HTTPException verify_assert raises for a failed check: the 403 of the
\* missing key, and for the rest the 403 that its outer except Exception puts
\* in the place of whatever the try block raised (the 500 of the counter
\* parse and the 403 of the replay check included).
assert_error(failure) ==
    [status_code |-> "403", detail |-> "Assertion verification failed"]

\* AssertLookup deleting the key record when it detects a replay.
AssertLookup_revoking(p, k, assertion, out) ==
    /\ proc[p].pc = "idle"
    /\ LET key_record == get_key(public_keys, k, out)
           failure == assert_checks(key_record, assertion) IN
        /\ proc' = Begin(p,
            IF failure = "none"
            THEN [Idle EXCEPT !.pc = "assert_update", !.op = "assert",
                              !.key_id_b64 = k, !.counter = assertion.counter]
            ELSE [Idle EXCEPT !.pc = "done", !.op = "assert",
                              !.key_id_b64 = k,
                              !.ret = assert_error(failure).status_code,
                              !.detail = assert_error(failure).detail,
                              !.log = failure])
        /\ public_keys' = IF failure = "counter_replay"
                          THEN [x \in (DOMAIN public_keys) \ {k} |-> public_keys[x]]
                          ELSE public_keys
    /\ UNCHANGED <<challenges, now, urandom, attested>>

\* verify_assert up to its update_key_counter call: get_key, then (without
\* another await) the signature check, the counter parse and the replay check.
AssertLookup(p, k, assertion, out) ==
    /\ proc[p].pc = "idle"
    /\ LET key_record == get_key(public_keys, k, out)
           failure == assert_checks(key_record, assertion) IN
        proc' = Begin(p,
            IF failure = "none"
            THEN [Idle EXCEPT !.pc = "assert_update", !.op = "assert",
                              !.key_id_b64 = k, !.counter = assertion.counter]
            ELSE [Idle EXCEPT !.pc = "done", !.op = "assert",
                              !.key_id_b64 = k,
                              !.ret = assert_error(failure).status_code,
                              !.detail = assert_error(failure).detail,
                              !.log = failure])
    /\ UNCHANGED <<challenges, public_keys, now, urandom, attested>>

\* verify_assert from update_key_counter to its return.
AssertUpdate(p, out) ==
    /\ proc[p].pc = "assert_update"
    /\ public_keys' = Written(out, public_keys,
            update_key_counter(public_keys, proc[p].key_id_b64, proc[p].counter))
    /\ proc' = [proc EXCEPT ![p].pc = "done", ![p].ret = "success"]
    /\ UNCHANGED <<challenges, now, urandom, attested>>

(* ---------------- the system ---------------- *)

\* The request is answered; the coroutine is gone.
Return(p) ==
    /\ proc[p].pc = "done"
    /\ proc' = [proc EXCEPT ![p] = Idle]
    /\ UNCHANGED <<challenges, public_keys, now, urandom, attested>>

\* A call made outside the routes.
Direct(p) ==
    request[p].route = "none" /\ UNCHANGED <<request, gateway_vars>>

Tick ==
    /\ \E d \in TickSteps :
        /\ now + d <= MaxTime
        /\ now' = now + d
    /\ UNCHANGED <<challenges, public_keys, urandom, proc, attested, request,
                   gateway_vars>>

(* ---------------- routes: POST /verify/attest and the dispatcher ---------------- *)

\* The identity alone as user.
principal_identity_only(identity, service_type) ==
    identity

\* A str as the sequence of its parts; f"{identity}:{service_type}".
principal(identity, service_type) ==
    identity \o <<":">> \o <<service_type>>

\* The bearer credentials a caller can put in the Authorization header:
\* nothing, a JWT carrying attestation or assertion fields (its challenge_b64
\* decodable or not), an MLPA access token, an FxA token, anything else.
Credentials ==
    [kind : {"empty", "garbage"}]
        \cup [kind : {"attest_jwt", "assert_jwt"}, key_id_b64 : Keys,
              challenge : 0..MaxChallenges, b64 : {"ok"}]
        \cup [kind : {"attest_jwt", "assert_jwt"}, key_id_b64 : Keys,
              challenge : {0}, b64 : {"invalid"}]
        \cup [kind : {"mlpa_token"}, sub : Subjects, valid : BOOLEAN]
        \cup [kind : {"fxa_token"}, user : FxaUsers, valid : BOOLEAN]

\* A request outside the two routes. History: repeat, when the request
\* arrived another request had already consumed the challenge it presents;
\* accepted_by, the scheme whose token verification accepts the credential
\* the request carries.
NoRequest ==
    [route |-> "none", scheme |-> "none", phase |-> "none", key_id_b64 |-> 0,
     challenge |-> 0, service_type |-> "none", status |-> "none",
     detail |-> "none", user |-> <<>>, repeat |-> FALSE, accepted_by |-> "none"]

\* History: a request that has not responded yet has consumed challenge c
\* of key k (its validate_challenge has returned True).
AlreadyConsumed(k, c) ==
    \E q \in Procs : /\ request[q].phase \in {"verify", "verifying"}
                     /\ request[q].key_id_b64 = k
                     /\ request[q].challenge = c

\* The response that ends a request: an HTTPException, the 201 body, or the
\* AuthorizedChatRequest with its user.
Responded(r, status, detail, user) ==
    [r EXCEPT !.phase = "responded", !.status = status, !.detail = detail,
              !.user = user, !.challenge = 0, !.repeat = FALSE]

\* authorize_request testing use_play_integrity before use_app_attest.
selected_scheme_play_first(use_app_attest, use_play_integrity) ==
    IF use_play_integrity = "true" THEN "play_integrity"
    ELSE IF use_app_attest = "true" THEN "app_attest"
    ELSE "fxa"

\* if use_app_attest: ... elif use_play_integrity: ... else: ...
selected_scheme(use_app_attest, use_play_integrity) ==
    IF use_app_attest = "true" THEN "app_attest"
    ELSE IF use_play_integrity = "true" THEN "play_integrity"
    ELSE "fxa"

\* parse_app_attest_jwt(authorization, type) returns the payload.
parse_app_attest_jwt(authorization, type) ==
    authorization.kind = type

\* attest / app_attest_auth up to the first await of validate_challenge:
\* the JWT is parsed (401), challenge_b64 decoded (400), get_challenge awaited.
RouteChallenge(p, r, authorization, type, out) ==
    IF ~parse_app_attest_jwt(authorization, type)
    THEN /\ request' = [request EXCEPT ![p] =
                Responded(r, "401",
                    IF type = "attest_jwt" THEN "Invalid App attest"
                    ELSE "Invalid App assert", <<>>)]
         /\ UNCHANGED <<challenges, public_keys, now, urandom, proc, attested>>
    ELSE IF authorization.b64 = "invalid"
    THEN /\ request' = [request EXCEPT ![p] =
                Responded(r, "400", "Invalid Base64", <<>>)]
         /\ UNCHANGED <<challenges, public_keys, now, urandom, proc, attested>>
    ELSE /\ authorization.challenge <= urandom
         /\ ValidateGet(p, authorization.key_id_b64, authorization.challenge, out)
         /\ request' = [request EXCEPT ![p] =
                [r EXCEPT !.phase = "challenge",
                          !.key_id_b64 = authorization.key_id_b64,
                          !.challenge = authorization.challenge,
                          !.repeat = AlreadyConsumed(authorization.key_id_b64,
                                                     authorization.challenge)]]

\* POST /verify/attest arrives.
AttestRoute(p, authorization, out) ==
    /\ request[p].route = "none" /\ proc[p].pc = "idle"
    /\ authorization.kind # "empty"
    /\ RouteChallenge(p, [NoRequest EXCEPT !.route = "attest"],
                      authorization, "attest_jwt", out)
    /\ UNCHANGED gateway_vars

\* validate_challenge's delete_challenge and return, inside a route.
RouteChallengeDelete(p, out) ==
    /\ request[p].phase = "challenge"
    /\ ValidateDelete(p, out)
    /\ UNCHANGED <<request, gateway_vars>>

\* if not await validate_challenge(...): raise HTTPException(401); else the
\* handler goes on to the verifier.
RouteChallengeChecked(p) ==
    /\ request[p].phase = "challenge"
    /\ proc[p].pc = "done"
    /\ proc' = [proc EXCEPT ![p] = Idle]
    /\ request' = [request EXCEPT ![p] =
            IF proc[p].ret = "True"
            THEN [@ EXCEPT !.phase = "verify", !.repeat = FALSE]
            ELSE Responded(@, "401", "Invalid or expired challenge", <<>>)]
    /\ UNCHANGED <<challenges, public_keys, now, urandom, attested>>
    /\ UNCHANGED gateway_vars

\* attest calls verify_attest with the attestation object of the JWT.
AttestRouteVerify(p, att) ==
    /\ request[p].route = "attest" /\ request[p].phase = "verify"
    /\ AttestVerify(p, request[p].key_id_b64, att)
    /\ request' = [request EXCEPT ![p].phase = "verifying"]
    /\ UNCHANGED gateway_vars

\* verify_attest's store_key and return, inside the route.
AttestRouteStore(p, out) ==
    /\ request[p].route = "attest" /\ request[p].phase = "verifying"
    /\ AttestStore(p, out)
    /\ UNCHANGED <<request, gateway_vars>>

\* attest returns verify_attest's result (201) or lets its HTTPException
\* through.
AttestRouteRespond(p) ==
    /\ request[p].route = "attest" /\ request[p].phase = "verifying"
    /\ proc[p].pc = "done"
    /\ proc' = [proc EXCEPT ![p] = Idle]
    /\ request' = [request EXCEPT ![p] =
            IF proc[p].ret = "success" THEN Responded(@, "201", "success", <<>>)
            ELSE Responded(@, proc[p].ret, proc[p].detail, <<>>)]
    /\ UNCHANGED <<challenges, public_keys, now, urandom, attested>>
    /\ UNCHANGED gateway_vars

\* extract_user_from_play_integrity_jwt taking the user of an FxA token when
\* the credential is no MLPA access token.
extract_user_from_play_integrity_jwt_or_fxa(authorization) ==
    IF authorization.kind = "mlpa_token" /\ authorization.valid
    THEN authorization.sub
    ELSE IF authorization.kind = "fxa_token" /\ authorization.valid
    THEN authorization.user
    ELSE None

\* extract_user_from_play_integrity_jwt: the sub of a token that decodes
\* under the MLPA secret, or None for its HTTPException(401).
extract_user_from_play_integrity_jwt(authorization) ==
    IF authorization.kind = "mlpa_token" /\ authorization.valid
    THEN authorization.sub ELSE None

\* fxa_auth: the user of the profile of a token FxA verifies, or None for
\* its HTTPException(401).
fxa_auth(authorization) ==
    IF authorization.kind = "fxa_token" /\ authorization.valid
    THEN authorization.user ELSE None

\* History: the scheme whose token verification accepts the credential.
accepting_scheme(authorization) ==
    IF authorization.kind = "mlpa_token" /\ authorization.valid THEN "play_integrity"
    ELSE IF authorization.kind = "fxa_token" /\ authorization.valid THEN "fxa"
    ELSE "none"

\* authorize_request up to its first await: the header test, the choice of
\* the scheme, and then app_attest_auth up to get_challenge, or the whole of
\* extract_user_from_play_integrity_jwt, or fxa_auth.
AuthorizeRequest(p, use_app_attest, use_play_integrity, authorization, service_type, out) ==
    /\ request[p].route = "none" /\ proc[p].pc = "idle"
    /\ LET r == [NoRequest EXCEPT !.route = "chat", !.service_type = service_type]
           scheme == selected_scheme(use_app_attest, use_play_integrity)
           rs == [r EXCEPT !.scheme = scheme,
                           !.accepted_by = accepting_scheme(authorization)]
           play_user_id == extract_user_from_play_integrity_jwt(authorization)
           fxa_user_id == fxa_auth(authorization) IN
        IF authorization.kind = "empty"
        THEN /\ request' = [request EXCEPT ![p] =
                    Responded(r, "401", "Missing authorization header", <<>>)]
             /\ UNCHANGED <<challenges, public_keys, now, urandom, proc, attested>>
        ELSE IF scheme = "app_attest"
        THEN RouteChallenge(p, rs, authorization, "assert_jwt", out)
        ELSE IF scheme = "play_integrity"
        THEN /\ request' = [request EXCEPT ![p] =
                    IF play_user_id # None
                    THEN Responded(rs, "authorized", "none",
                                   principal(play_user_id, service_type))
                    ELSE Responded(rs, "401", "Invalid MLPA access token", <<>>)]
             /\ UNCHANGED <<challenges, public_keys, now, urandom, proc, attested>>
        ELSE /\ request' = [request EXCEPT ![p] =
                    IF fxa_user_id # None
                    THEN Responded(rs, "authorized", "none",
                                   principal(fxa_user_id, service_type))
                    ELSE Responded(rs, "401", "Invalid FxA auth", <<>>)]
             /\ UNCHANGED <<challenges, public_keys, now, urandom, proc, attested>>
    /\ UNCHANGED gateway_vars

\* app_attest_auth calls verify_assert with the assertion object of the JWT.
AppAttestAuthVerify(p, assertion, out) ==
    /\ request[p].route = "chat" /\ request[p].phase = "verify"
    /\ AssertLookup(p, request[p].key_id_b64, assertion, out)
    /\ request' = [request EXCEPT ![p].phase = "verifying"]
    /\ UNCHANGED gateway_vars

\* verify_assert's update_key_counter and return, inside app_attest_auth.
AppAttestAuthUpdate(p, out) ==
    /\ request[p].route = "chat" /\ request[p].phase = "verifying"
    /\ AssertUpdate(p, out)
    /\ UNCHANGED <<request, gateway_vars>>

\* app_attest_auth letting the HTTPException of verify_assert through.
app_attest_auth_error_passthrough(status_code, detail) ==
    [status_code |-> status_code, detail |-> detail]

\* except HTTPException: raise HTTPException(401, "Invalid App Attest
\* assertion"), whatever status and detail verify_assert raised.
app_attest_auth_error(status_code, detail) ==
    [status_code |-> "401", detail |-> "Invalid App Attest assertion"]

\* app_attest_auth returns verify_assert's result, and authorize_request the
\* AuthorizedChatRequest of the key; or verify_assert's HTTPException is
\* turned into the 401 of app_attest_auth.
AppAttestAuthRespond(p) ==
    /\ request[p].route = "chat" /\ request[p].phase = "verifying"
    /\ proc[p].pc = "done"
    /\ proc' = [proc EXCEPT ![p] = Idle]
    /\ request' = [request EXCEPT ![p] =
            IF proc[p].ret = "success"
            THEN Responded(@, "authorized", "none",
                           principal(<<"key_id_b64", @.key_id_b64>>, @.service_type))
            ELSE Responded(@,
                    app_attest_auth_error(proc[p].ret, proc[p].detail).status_code,
                    app_attest_auth_error(proc[p].ret, proc[p].detail).detail,
                    <<>>)]
    /\ UNCHANGED <<challenges, public_keys, now, urandom, attested>>
    /\ UNCHANGED gateway_vars

\* The response is sent; the request is gone.
Finish(p) ==
    /\ request[p].phase = "responded"
    /\ request' = [request EXCEPT ![p] = NoRequest]
    /\ UNCHANGED <<challenges, public_keys, now, urandom, proc, attested>>
    /\ UNCHANGED gateway_vars

\* GET /verify/challenge: generate_client_challenge and its response.
ChallengeRoute(p, out) ==
    /\ request[p].route = "none"
    /\ \/ \E k \in Keys : IssueGet(p, k, out)
       \/ IssueStore(p, out)
       \/ Return(p)
    /\ UNCHANGED <<request, gateway_vars>>

\* A step of request p in POST /verify/attest.
AttestRouteStep(p, out) ==
    \/ \E authorization \in Credentials : AttestRoute(p, authorization, out)
    \/ \E att \in Attestations : AttestRouteVerify(p, att)
    \/ AttestRouteStore(p, out)
    \/ AttestRouteRespond(p)

\* A step of request p in authorize_request.
AuthorizeStep(p, out) ==
    \/ \E use_app_attest \in Flags, use_play_integrity \in Flags,
          authorization \in Credentials, service_type \in ServiceTypes :
            AuthorizeRequest(p, use_app_attest, use_play_integrity,
                             authorization, service_type, out)
    \/ \E assertion \in Assertions : AppAttestAuthVerify(p, assertion, out)
    \/ AppAttestAuthUpdate(p, out)
    \/ AppAttestAuthRespond(p)

(* ---------------- get_completion: the backend's errors ---------------- *)

ERROR_CODE_BUDGET_LIMIT_EXCEEDED == 1
ERROR_CODE_RATE_LIMIT_EXCEEDED == 2

\* A str is the sequence of its characters.
budget == <<"b", "u", "d", "g", "e", "t">>
rate == <<"r", "a", "t", "e">>

\* The strings the backend puts in the members of an error body.
Texts ==
    {<<>>, budget, rate,
     <<"B", "u", "d", "g", "e", "t">>,
     <<"R", "A", "T", "E">>,
     <<"g", "e", "n", "e", "r", "a", "t", "e">>,
     <<"o", "t", "h", "e", "r">>}

\* str.lower() on the letters that occur.
lower(s) ==
    [i \in DOMAIN s |->
        CASE s[i] = "B" -> "b" [] s[i] = "R" -> "r" [] s[i] = "A" -> "a"
          [] s[i] = "T" -> "t" [] s[i] = "E" -> "e" [] OTHER -> s[i]]

\* indicator in error_text
contains(error_text, indicator) ==
    \E i \in 1..(Len(error_text) - Len(indicator) + 1) :
        SubSeq(error_text, i, i + Len(indicator) - 1) = indicator

\* The member "error" of a JSON object: absent, null, a string, or an object
\* with the members type, message and code.
Errors ==
    [kind : {"absent", "null"}]
        \cup [kind : {"string"}, text : {budget, rate}]
        \cup [kind : {"object"}, type : {<<>>, budget, rate},
              message : Texts, code : {<<>>, budget}]

\* response.text: empty, text that is no JSON, a JSON array, a JSON object.
Bodies ==
    [form : {"empty", "array"}]
        \cup [form : {"not_json"}, text : {budget, rate, <<"o", "t", "h", "e", "r">>}]
        \cup [form : {"object"}, error : Errors]

StatusCodes == {200, 400, 401, 402, 403, 404, 429, 500, 502, 503}

\* What client.post gives: an exception of the transport, or a response.
BackendOutcomes ==
    [kind : {"exception"}, type : {"TimeoutException", "ConnectError"}]
        \cup [kind : {"response"}, status_code : StatusCodes, text : Bodies]

\* is_rate_limit_error looking for the keywords in the member code as well.
is_rate_limit_error_any_member(error_response, keywords) ==
    IF error_response.error.kind \in {"null", "string"} THEN "AttributeError"
    ELSE LET error == error_response.error
             error_text ==
                IF error.kind = "absent" THEN <<" ">>
                ELSE lower(error.type \o <<" ">> \o error.message \o <<" ">> \o error.code) IN
         IF \E n \in DOMAIN keywords : contains(error_text, keywords[n])
         THEN "True" ELSE "False"

\* is_rate_limit_error(error_response, keywords) for a JSON object: "True",
\* "False", or the AttributeError of .get on None or on a str.
is_rate_limit_error(error_response, keywords) ==
    IF error_response.error.kind \in {"null", "string"} THEN "AttributeError"
    ELSE LET error == error_response.error
             error_text ==
                IF error.kind = "absent" THEN <<" ">>
                ELSE lower(error.type \o <<" ">> \o error.message) IN
         IF \E n \in DOMAIN keywords : contains(error_text, keywords[n])
         THEN "True" ELSE "False"

\* _parse_rate_limit_error reporting a body once: None for a body that the
\* call before has already been given.
parse_rate_limit_error_once(error_text) ==
    IF completion.earlier # None
        /\ completion.earlier[1].backend.kind = "response"
        /\ completion.earlier[1].backend.text = error_text
    THEN 0
    ELSE IF error_text.form # "object" THEN 0
    ELSE IF is_rate_limit_error(error_text, <<budget>>) = "AttributeError" THEN 0
    ELSE IF is_rate_limit_error(error_text, <<budget>>) = "True"
    THEN ERROR_CODE_BUDGET_LIMIT_EXCEEDED
    ELSE IF is_rate_limit_error(error_text, <<rate>>) = "True"
    THEN ERROR_CODE_RATE_LIMIT_EXCEEDED
    ELSE 0

\* _parse_rate_limit_error: the error code, or 0 for None.
parse_rate_limit_error(error_text) ==
    IF error_text.form = "empty" THEN 0
    ELSE IF error_text.form = "not_json" THEN 0
    ELSE IF error_text.form = "array" THEN 0
    ELSE IF is_rate_limit_error(error_text, <<budget>>) = "AttributeError" THEN 0
    ELSE IF is_rate_limit_error(error_text, <<budget>>) = "True"
    THEN ERROR_CODE_BUDGET_LIMIT_EXCEEDED
    ELSE IF is_rate_limit_error(error_text, <<rate>>) = "True"
    THEN ERROR_CODE_RATE_LIMIT_EXCEEDED
    ELSE 0

\* An HTTPException: its status_code, its detail {"error": ...} as the int
\* error_code or the str error, and its Retry-After header.
HTTPException(status_code, error_code, error, retry_after) ==
    [outcome |-> "raised", status_code |-> status_code, error_code |-> error_code,
     error |-> error, retry_after |-> retry_after]

\* _handle_rate_limit_error: the HTTPException it raises, or None when it
\* returns.
handle_rate_limit_error(response) ==
    LET error_code == parse_rate_limit_error(response.text) IN
    IF error_code = ERROR_CODE_BUDGET_LIMIT_EXCEEDED
    THEN Row(HTTPException(429, ERROR_CODE_BUDGET_LIMIT_EXCEEDED, "", "86400"))
    ELSE IF error_code = ERROR_CODE_RATE_LIMIT_EXCEEDED
    THEN Row(HTTPException(429, ERROR_CODE_RATE_LIMIT_EXCEEDED, "", "60"))
    ELSE None

\* The statuses for which get_completion asks _handle_rate_limit_error.
rate_limit_statuses == {400, 429}

\* get_completion passing every upstream error on as a 502.
upstream_error_as_502(response) ==
    HTTPException(502, 0, "Upstream service returned an error", "")

\* raise HTTPException(status_code=e.response.status_code, detail={"error":
\* "Upstream service returned an error"})
upstream_error(response) ==
    HTTPException(response.status_code, 0, "Upstream service returned an error", "")

\* What get_completion does with what client.post gives: the data of the
\* response, or the HTTPException it raises.
get_completion(backend) ==
    IF backend.kind = "exception"
    THEN HTTPException(502, 0, "Failed to proxy request", "")
    ELSE IF backend.status_code < 400
    THEN [outcome |-> "returned", status_code |-> backend.status_code,
          error_code |-> 0, error |-> "", retry_after |-> ""]
    ELSE IF backend.status_code \in rate_limit_statuses
            /\ handle_rate_limit_error(backend) # None
    THEN handle_rate_limit_error(backend)[1]
    ELSE upstream_error(backend)

\* No get_completion call. History: earlier, the call made before this one
\* and what it gave.
NoCompletion ==
    [pc |-> "none", backend |-> [kind |-> "none"], result |-> [outcome |-> "none"],
     earlier |-> None]

\* No stream_completion call.
NoStream ==
    [pc |-> "none", upstream |-> [kind |-> "none"], consumed |-> 0, sent |-> <<>>,
     streaming_started |-> FALSE, open |-> FALSE, closed |-> 0, finalized |-> 0,
     failed |-> "none", ended |-> "no"]

\* No MLPA access token.
NoBearer ==
    [leeway |-> 0, issued |-> None, pc |-> "none", presented |-> [form |-> "none"],
     at |-> 0, result |-> [outcome |-> "none"]]

\* No POST /verify/play request.
NoPlay ==
    [pc |-> "none", user_id |-> "", decoded |-> [kind |-> "none"],
     response |-> [status_code |-> 0, detail |-> "", access_token |-> None,
                   token_type |-> "", expires_in |-> 0]]

\* No fxa_auth call.
NoFxa ==
    [pc |-> "none", verify_token |-> <<>>, task |-> <<>>, completed |-> <<>>,
     consumed |-> 0, errors |-> <<>>,
     result |-> [kind |-> "none", scope |-> 0, status_code |-> 0, detail |-> ""]]

\* No request in the middleware.
NoHttp ==
    [pc |-> "none", user_middleware |-> <<>>, request |-> [path |-> ""], next |-> 1,
     ran |-> <<>>, status_code |-> 0, content |-> ""]

\* No chat_completion call.
NoChat ==
    [pc |-> "none", user_id |-> "", in_force |-> FALSE, user |-> [blocked |-> FALSE],
     status_code |-> 0, error |-> "", sent_to_backend |-> FALSE]

\* No block_user call.
NoAdmin ==
    [user_id |-> "", blocked |-> FALSE, before |-> <<>>, after |-> <<>>,
     status_code |-> 0]

\* No user, no chat request, no block_user call.
InitUsers ==
    /\ end_users = <<>>
    /\ chat = [p \in Procs |-> NoChat]
    /\ admin = NoAdmin

\* No root loaded, no verification run.
NoTrust ==
    [APP_ATTEST_QA |-> FALSE, cache |-> None,
     config |-> [procedure \in {"verify_attest", "verify_assert"} |->
                    [use_qa_certificates \in Flags |-> ""]],
     last |-> [procedure |-> "", use_qa_certificates |-> "", chain |-> "",
               status_code |-> 0]]

\* A PGService after __init__ (pg_service.py:16-22), no connection yet.
NoPg ==
    [weakrefable |-> TRUE, created |-> 0, live |-> {},
     stmt_caches |-> <<>>, stmt_caches_by_id |-> <<>>,
     call |-> [conn |-> [obj |-> 0, id |-> 0], query |-> "", hit |-> FALSE,
               returned |-> None]]

\* LiteLLM with no customer, no get_or_create_user call made.
NoLitellm ==
    [customers |-> <<>>,
     call |-> [scheme |-> "", user_id |-> <<>>, service_type |-> "",
               status_code |-> 0, was_created |-> FALSE]]

\* The shared services before any call.
InitServices ==
    /\ trust = NoTrust
    /\ pg = NoPg
    /\ litellm = NoLitellm

\* The App Attest engine before any request.
InitAttest ==
    /\ challenges = <<>>
    /\ public_keys = <<>>
    /\ now = 0
    /\ urandom = 0
    /\ proc = [p \in Procs |-> Idle]
    /\ attested = {}
    /\ request = [p \in Procs |-> NoRequest]

\* A get_completion call is made and the backend answers.
InitCompletion ==
    /\ InitAttest
    /\ completion \in [pc : {"post"}, backend : BackendOutcomes,
                       result : {[outcome |-> "none"]}, earlier : {None}]
    /\ stream = NoStream
    /\ bearer = NoBearer
    /\ play = NoPlay
    /\ fxa = NoFxa
    /\ http = NoHttp
    /\ InitUsers
    /\ InitServices

\* get_completion from the answer of client.post to its return or raise.
GetCompletion ==
    /\ completion.pc = "post"
    /\ completion' = [completion EXCEPT !.pc = "done",
                                        !.result = get_completion(completion.backend)]
    /\ UNCHANGED <<attest_vars, stream, bearer, play, fxa, http, chat_vars, service_vars>>

\* After a get_completion call a second one is made.
AnotherCompletion(backend) ==
    /\ completion.pc = "done" /\ completion.earlier = None
    /\ completion' = [pc |-> "post", backend |-> backend,
                      result |-> [outcome |-> "none"],
                      earlier |-> Row([backend |-> completion.backend,
                                       result |-> completion.result])]
    /\ UNCHANGED <<attest_vars, stream, bearer, play, fxa, http, chat_vars, service_vars>>

NextCompletion == GetCompletion

\* Two get_completion calls, one after the other.
NextCompletions ==
    \/ GetCompletion
    \/ \E backend \in BackendOutcomes : AnotherCompletion(backend)

SpecCompletion == InitCompletion /\ [][NextCompletion]_vars
SpecCompletions == InitCompletion /\ [][NextCompletions]_vars

(* ---------------- stream_completion ---------------- *)

\* What client.stream gives: an exception of the transport before there is
\* a response; a response that raise_for_status refuses, with the body
\* aread() gives or with an aread() that raises; a 2xx response whose
\* aiter_bytes gives the chunks and may raise after fail_at of them, and
\* after which the tokenizer works or raises.
StreamUpstreams ==
    [kind : {"exception"}]
        \cup [kind : {"error_response"}, status_code : StatusCodes \ {200},
              text : Bodies, aread : {"ok", "raises"}]
        \cup {u \in [kind : {"stream"}, chunks : UNION {[1..n -> {"chunk1", "chunk2"}] : n \in 0..MaxChunks},
                     failure : {"none", "ReadError", "HTTPStatusError"},
                     fail_at : 0..MaxChunks, tokenizer : {"ok", "raises"}] :
                /\ u.fail_at <= Len(u.chunks)
                /\ u.failure = "none" => u.fail_at = 0}

\* What stream_completion yields: a chunk of the backend, or an SSE event
\* data: {"error": ...} with an int code or a str.
chunk_item(chunk) ==
    [kind |-> "chunk", data |-> chunk, error_code |-> 0, error |-> ""]

error_event(error_code, error) ==
    [kind |-> "event", data |-> "", error_code |-> error_code, error |-> error]

\* The generator leaving its body without cleanup when it is closed.
Leave_not_when_closed(s, how) ==
    IF how = "closed" THEN [s EXCEPT !.pc = "done", !.ended = how]
    ELSE [s EXCEPT !.pc = "done", !.open = FALSE,
                   !.closed = IF s.open THEN @ + 1 ELSE @,
                   !.finalized = @ + 1, !.ended = how]

\* The generator leaves its body: __aexit__ of client.stream closes the
\* response if it is open, and the finally block observes the duration.
Leave(s, how) ==
    [s EXCEPT !.pc = "done", !.open = FALSE,
              !.closed = IF s.open THEN @ + 1 ELSE @,
              !.finalized = @ + 1, !.ended = how]

\* The error handlers yielding their event whether streaming has started or
\* not.
Handler_always_event(s, exc, labels) ==
    LET s1 == [s EXCEPT !.open = FALSE, !.closed = IF s.open THEN @ + 1 ELSE @,
                        !.failed = exc] IN
    IF exc = "HTTPStatusError"
    THEN [s1 EXCEPT !.pc = "handler_event",
            !.sent = Append(@, error_event(0, "Upstream service returned an error"))]
    ELSE IF labels = "raises" THEN Leave(s1, "raised")
    ELSE [s1 EXCEPT !.pc = "handler_event",
            !.sent = Append(@, error_event(0, "Failed to proxy request"))]

\* An exception leaves the async with block, which closes the response, and
\* reaches except httpx.HTTPStatusError or except Exception; the latter
\* first calls metrics.ai_error_count_total.labels(error_type=...), which
\* returns or raises. Each handler yields its event if not streaming_started.
Handler(s, exc, labels) ==
    LET s1 == [s EXCEPT !.open = FALSE, !.closed = IF s.open THEN @ + 1 ELSE @,
                        !.failed = exc] IN
    IF exc = "HTTPStatusError"
    THEN IF ~s.streaming_started
         THEN [s1 EXCEPT !.pc = "handler_event",
                !.sent = Append(@, error_event(0, "Upstream service returned an error"))]
         ELSE Leave(s1, "returned")
    ELSE IF labels = "raises" THEN Leave(s1, "raised")
    ELSE IF ~s.streaming_started
         THEN [s1 EXCEPT !.pc = "handler_event",
                !.sent = Append(@, error_event(0, "Failed to proxy request"))]
         ELSE Leave(s1, "returned")

\* The event for a refused response, classifying whatever its status.
refused_event_any_status(status_code, error_text_str) ==
    IF parse_rate_limit_error(error_text_str) # 0
    THEN error_event(parse_rate_limit_error(error_text_str), "")
    ELSE error_event(0, "Upstream service returned an error")

\* The event for the response raise_for_status refuses: the error code of
\* _parse_rate_limit_error for status 400 or 429, else the generic event.
refused_event(status_code, error_text_str) ==
    IF status_code \in {400, 429} /\ parse_rate_limit_error(error_text_str) # 0
    THEN error_event(parse_rate_limit_error(error_text_str), "")
    ELSE error_event(0, "Upstream service returned an error")

\* The chunk after the last one of the backend's chunks.
next_chunk_from_end(upstream, consumed) ==
    upstream.chunks[Len(upstream.chunks) - consumed]

\* The chunk aiter_bytes gives after consumed chunks.
next_chunk(upstream, consumed) ==
    upstream.chunks[consumed + 1]

\* -- the steps of the generator (each leaves the rest unchanged) --

\* The generator runs from its start to its first yield or its end.
StreamOpen(labels) ==
    /\ stream.pc = "start"
    /\ LET u == stream.upstream IN
        stream' =
            IF u.kind = "exception" THEN Handler(stream, "Exception", labels)
            ELSE IF u.kind = "error_response"
            THEN [stream EXCEPT !.open = TRUE, !.pc = "error_event",
                    !.sent = Append(@, refused_event(u.status_code,
                        IF u.aread = "ok" THEN u.text ELSE [form |-> "empty"]))]
            ELSE [stream EXCEPT !.open = TRUE, !.pc = "relay"]
    /\ UNCHANGED <<attest_vars, completion, bearer, play, fxa, http, chat_vars, service_vars>>

\* async for chunk in response.aiter_bytes(): the next chunk is yielded, or
\* aiter_bytes raises, or the loop ends and the tokens are counted.
StreamRelay(labels) ==
    /\ stream.pc = "relay"
    /\ LET u == stream.upstream IN
        stream' =
            IF u.failure # "none" /\ u.fail_at = stream.consumed
            THEN Handler(stream,
                    IF u.failure = "HTTPStatusError" THEN "HTTPStatusError"
                    ELSE "Exception", labels)
            ELSE IF stream.consumed < Len(u.chunks)
            THEN [stream EXCEPT !.pc = "chunk", !.consumed = @ + 1,
                    !.streaming_started = TRUE,
                    !.sent = Append(@, chunk_item(next_chunk(u, stream.consumed)))]
            ELSE IF u.tokenizer = "raises"
            THEN Handler(stream, "Exception", labels)
            ELSE Leave(stream, "returned")
    /\ UNCHANGED <<attest_vars, completion, bearer, play, fxa, http, chat_vars, service_vars>>

\* The consumer asks for the next item: the generator goes on after its
\* yield.
StreamResume ==
    /\ stream.pc \in {"chunk", "error_event", "handler_event"}
    /\ stream' = IF stream.pc = "chunk" THEN [stream EXCEPT !.pc = "relay"]
                 ELSE Leave(stream, "returned")
    /\ UNCHANGED <<attest_vars, completion, bearer, play, fxa, http, chat_vars, service_vars>>

\* The client is gone: the generator is closed where it is suspended, at a
\* yield or at the await of the next chunk.
StreamCancel ==
    /\ stream.pc \in {"chunk", "error_event", "handler_event", "relay"}
    /\ stream' = Leave(stream, "closed")
    /\ UNCHANGED <<attest_vars, completion, bearer, play, fxa, http, chat_vars, service_vars>>


\* A stream_completion call is made on some answer of the backend.
InitStream ==
    /\ InitAttest
    /\ completion = NoCompletion
    /\ stream \in [pc : {"start"}, upstream : StreamUpstreams, consumed : {0},
                   sent : {<<>>}, streaming_started : {FALSE}, open : {FALSE},
                   closed : {0}, finalized : {0}, failed : {"none"}, ended : {"no"}]
    /\ bearer = NoBearer
    /\ play = NoPlay
    /\ fxa = NoFxa
    /\ http = NoHttp
    /\ InitUsers
    /\ InitServices

NextStream ==
    \/ \E labels \in {"ok", "raises"} : StreamOpen(labels)
    \/ \E labels \in {"ok", "raises"} : StreamRelay(labels)
    \/ StreamResume
    \/ StreamCancel

SpecStream == InitStream /\ [][NextStream]_vars

(* ---------------- the MLPA access token ---------------- *)

MLPA_ACCESS_TOKEN_SECRET == "MLPA_ACCESS_TOKEN_SECRET"

\* The leeway of jwtoxide's expiry check. ValidationOptions is built without
\* a leeway, so the default of the library applies, which the source does
\* not fix: none, or the 60 seconds of the jsonwebtoken crate it wraps.
Leeways == {0, 60}

UserIds == {"user1", "user2"}

\* jwtoxide encode: the payload with its HS256 signature, which is a
\* function of the key and of the payload signed.
encode(payload, key) ==
    [payload |-> payload, signature |-> [key |-> key, payload |-> payload]]

\* issue_mlpa_access_token at time time.time() = at.
issue_mlpa_access_token(user_id, at) ==
    encode([sub |-> user_id, iat |-> at,
            exp |-> Row(at + MLPA_ACCESS_TOKEN_TTL_SECONDS),
            iss |-> "mlpa", typ |-> "mlpa_access"],
           MLPA_ACCESS_TOKEN_SECRET)

\* jwtoxide decode under the ValidationOptions of
\* extract_user_from_play_integrity_jwt at time at: "ok", or the error.
decode(token, key, leeway, at) ==
    IF token.signature # [key |-> key, payload |-> token.payload]
    THEN "InvalidSignature"
    ELSE IF token.payload.exp = None THEN "MissingRequiredClaim"
    ELSE IF token.payload.exp[1] < at - leeway THEN "ExpiredSignature"
    ELSE IF token.payload.iss # "mlpa" THEN "InvalidIssuer"
    ELSE "ok"

\* extract_user_from_play_integrity_jwt with the token spelled out: what it
\* returns or raises for an Authorization header at time at. A header with
\* no word after removeprefix("Bearer ") makes split()[0] raise IndexError
\* before the try.
extract_user_from_play_integrity_jwt_at(authorization, leeway, at) ==
    IF authorization.form = "empty"
    THEN [outcome |-> "raised", type |-> "IndexError", status_code |-> 500,
          detail |-> "", sub |-> ""]
    ELSE IF decode(authorization.token, MLPA_ACCESS_TOKEN_SECRET, leeway, at) = "ok"
    THEN [outcome |-> "returned", type |-> "", status_code |-> 0,
          detail |-> "", sub |-> authorization.token.payload.sub]
    ELSE [outcome |-> "raised", type |-> "HTTPException", status_code |-> 401,
          detail |-> "Invalid MLPA access token", sub |-> ""]

\* The Authorization headers a caller can send at time at: none or the bare
\* "Bearer "; the token the gateway has issued, with the prefix or without;
\* that token with another sub or a later exp under its old signature; a
\* token another holder of the secret has just issued; tokens signed with
\* another key, or with the secret for another issuer or without exp.
Authorizations(issued, at) ==
    LET fresh == {issue_mlpa_access_token(u, at) : u \in UserIds}
        altered ==
            {[t EXCEPT !.payload.sub = u] : t \in issued, u \in UserIds}
                \cup {[t EXCEPT !.payload.exp = Row(@[1] + 60)] : t \in issued}
        foreign ==
            {encode(t.payload, "another key") : t \in fresh}
                \cup {encode([t.payload EXCEPT !.iss = "other"],
                             MLPA_ACCESS_TOKEN_SECRET) : t \in fresh}
                \cup {encode([t.payload EXCEPT !.exp = None],
                             MLPA_ACCESS_TOKEN_SECRET) : t \in fresh} IN
    [form : {"empty"}]
        \cup [form : {"bearer"}, token : issued \cup altered \cup fresh \cup foreign]
        \cup [form : {"bare"}, token : issued]

\* -- the steps (each leaves the rest unchanged) --

\* The gateway issues a token for user_id.
IssueToken(user_id) ==
    /\ bearer.pc = "idle" /\ bearer.issued = None
    /\ bearer' = [bearer EXCEPT !.issued = Row(issue_mlpa_access_token(user_id, now))]
    /\ UNCHANGED <<attest_vars, completion, stream, play, fxa, http, chat_vars, service_vars>>

\* A request presents an Authorization header to
\* extract_user_from_play_integrity_jwt.
ExtractUser(authorization) ==
    /\ bearer.pc = "idle"
    /\ bearer' = [bearer EXCEPT !.pc = "verified", !.presented = authorization,
                    !.at = now,
                    !.result = extract_user_from_play_integrity_jwt_at(
                                    authorization, bearer.leeway, now)]
    /\ UNCHANGED <<attest_vars, completion, stream, play, fxa, http, chat_vars, service_vars>>

\* The request is over; the next one can come.
NextExtract ==
    /\ bearer.pc = "verified"
    /\ bearer' = [bearer EXCEPT !.pc = "idle", !.presented = [form |-> "none"],
                    !.at = 0, !.result = [outcome |-> "none"]]
    /\ UNCHANGED <<attest_vars, completion, stream, play, fxa, http, chat_vars, service_vars>>

\* Time passes between requests, by a second or by a minute.
TokenTick ==
    /\ bearer.pc = "idle"
    /\ \E d \in {1, 60} : now + d <= MaxTokenTime /\ now' = now + d
    /\ UNCHANGED <<challenges, public_keys, urandom, proc, attested, request,
                   gateway_vars>>

\* The gateway before any token, with the leeway of its decoder.
InitBearer ==
    /\ InitAttest
    /\ completion = NoCompletion
    /\ stream = NoStream
    /\ bearer \in [leeway : Leeways, issued : {None}, pc : {"idle"},
                   presented : {[form |-> "none"]}, at : {0},
                   result : {[outcome |-> "none"]}]
    /\ play = NoPlay
    /\ fxa = NoFxa
    /\ http = NoHttp
    /\ InitUsers
    /\ InitServices

NextBearer ==
    \/ \E user_id \in UserIds : IssueToken(user_id)
    \/ \E authorization \in
            Authorizations({bearer.issued[i] : i \in DOMAIN bearer.issued}, now) :
        ExtractUser(authorization)
    \/ NextExtract
    \/ TokenTick

SpecBearer == InitBearer /\ [][NextBearer]_vars

(* ---------------- POST /verify/play ---------------- *)

PLAY_INTEGRITY_PACKAGE_NAME == "org.mozilla.firefox"

ALLOWED_DEVICE_VERDICTS ==
    {"MEETS_DEVICE_INTEGRITY", "MEETS_BASIC_INTEGRITY", "MEETS_STRONG_INTEGRITY"}

\* hashlib.sha256(text.encode("utf-8")).hexdigest()
sha256(text) == <<"sha256", text>>

\* The token payloads Google can decode: requestDetails absent, null or an
\* object whose requestPackageName and requestHash are absent (None) or
\* given; appIntegrity with its verdict or without; deviceIntegrity with its
\* list of verdicts (absent: the empty list).
TokenPayloads ==
    [requestDetails :
        [kind : {"absent", "null"}, requestPackageName : {None}, requestHash : {None}]
            \cup [kind : {"object"},
                  requestPackageName :
                    {None, Row(""), Row(PLAY_INTEGRITY_PACKAGE_NAME), Row("other.app")},
                  requestHash :
                    {None, <<"bad-hash">>} \cup {sha256(u) : u \in UserIds}],
     appRecognitionVerdict : {None, Row("PLAY_RECOGNIZED"), Row("UNRECOGNIZED_VERSION")},
     deviceRecognitionVerdict :
        {{}, {"MEETS_DEVICE_INTEGRITY"}, {"MEETS_BASIC_INTEGRITY"},
         {"MEETS_STRONG_INTEGRITY"}, {"MEETS_VIRTUAL_INTEGRITY"},
         {"MEETS_VIRTUAL_INTEGRITY", "MEETS_BASIC_INTEGRITY"}}]

\* A payload that passes every check for user1.
GoodPayload ==
    [requestDetails |-> [kind |-> "object",
                         requestPackageName |-> Row(PLAY_INTEGRITY_PACKAGE_NAME),
                         requestHash |-> sha256("user1")],
     appRecognitionVerdict |-> Row("PLAY_RECOGNIZED"),
     deviceRecognitionVerdict |-> {"MEETS_DEVICE_INTEGRITY"}]

\* What _decode_integrity_token gives: no Google access token; the post
\* refused (HTTPStatusError) or failing; a body that is no JSON or no JSON
\* object; a JSON object with tokenPayloadExternal and tokenPayload, each
\* absent or empty (None) or a payload.
DecodeOutcomes ==
    [kind : {"no_access_token", "HTTPStatusError", "exception", "not_json",
             "array"}]
        \cup [kind : {"object"},
              tokenPayloadExternal : {None} \cup {Row(t) : t \in TokenPayloads},
              tokenPayload : {None, Row(GoodPayload)}]

\* A response of the route: an HTTPException or unhandled exception as its
\* status and detail, or the 200 body with the access token.
PlayError(status_code, detail) ==
    [status_code |-> status_code, detail |-> detail, access_token |-> None,
     token_type |-> "", expires_in |-> 0]

\* _validate_integrity_payload without the check of the request hash.
validate_integrity_payload_without_hash(payload, expected_hash) ==
    LET request_details == payload.requestDetails
        package_name == request_details.requestPackageName IN
    IF request_details.kind = "null" THEN "AttributeError"
    ELSE IF package_name # None /\ package_name # Row("")
            /\ package_name # Row(PLAY_INTEGRITY_PACKAGE_NAME)
    THEN "Invalid package name"
    ELSE IF payload.appRecognitionVerdict # Row("PLAY_RECOGNIZED")
    THEN "App not recognized by Play"
    ELSE IF payload.deviceRecognitionVerdict \cap ALLOWED_DEVICE_VERDICTS = {}
    THEN "Device integrity check failed"
    ELSE "ok"

\* _validate_integrity_payload: "ok" when it returns, the detail of its
\* HTTPException(401), or the AttributeError of .get on None.
validate_integrity_payload(payload, expected_hash) ==
    LET request_details == payload.requestDetails
        package_name == request_details.requestPackageName IN
    IF request_details.kind = "null" THEN "AttributeError"
    ELSE IF package_name # None /\ package_name # Row("")
            /\ package_name # Row(PLAY_INTEGRITY_PACKAGE_NAME)
    THEN "Invalid package name"
    ELSE IF request_details.requestHash # expected_hash
    THEN "Invalid request hash"
    ELSE IF payload.appRecognitionVerdict # Row("PLAY_RECOGNIZED")
    THEN "App not recognized by Play"
    ELSE IF payload.deviceRecognitionVerdict \cap ALLOWED_DEVICE_VERDICTS = {}
    THEN "Device integrity check failed"
    ELSE "ok"

\* verify_play_integrity for the request's user_id on what
\* _decode_integrity_token gives, at time at.
verify_play_integrity(user_id, decoded, at) ==
    IF decoded.kind = "no_access_token"
    THEN PlayError(500, "Failed to fetch access token")
    ELSE IF decoded.kind = "HTTPStatusError"
    THEN PlayError(401, "Upstream service returned an error")
    ELSE IF decoded.kind = "exception"
    THEN PlayError(502, "Play Integrity validation service unavailable")
    ELSE IF decoded.kind \in {"not_json", "array"}
    THEN PlayError(500, "Internal Server Error")
    ELSE LET token_payload ==
                IF decoded.tokenPayloadExternal # None
                THEN decoded.tokenPayloadExternal ELSE decoded.tokenPayload
             checked == validate_integrity_payload(token_payload[1], sha256(user_id)) IN
         IF token_payload = None THEN PlayError(401, "Invalid Play Integrity token")
         ELSE IF checked = "AttributeError" THEN PlayError(500, "Internal Server Error")
         ELSE IF checked # "ok" THEN PlayError(401, checked)
         ELSE [status_code |-> 200, detail |-> "",
               access_token |-> Row(issue_mlpa_access_token(user_id, at)),
               token_type |-> "Bearer",
               expires_in |-> MLPA_ACCESS_TOKEN_TTL_SECONDS]

\* The route from the answer of Google to the response.
VerifyPlayIntegrity ==
    /\ play.pc = "decode"
    /\ play' = [play EXCEPT !.pc = "done",
                  !.response = verify_play_integrity(play.user_id, play.decoded, now)]
    /\ UNCHANGED <<attest_vars, completion, stream, bearer, fxa, http, chat_vars, service_vars>>

\* A request to POST /verify/play and what Google is going to answer.
InitPlay ==
    /\ InitAttest
    /\ completion = NoCompletion
    /\ stream = NoStream
    /\ bearer = NoBearer
    /\ play \in [pc : {"decode"}, user_id : UserIds, decoded : DecodeOutcomes,
                 response : {PlayError(0, "")}]
    /\ fxa = NoFxa
    /\ http = NoHttp
    /\ InitUsers
    /\ InitServices

NextPlay == VerifyPlayIntegrity

SpecPlay == InitPlay /\ [][NextPlay]_vars

(* ---------------- fxa_auth over the configured scopes ---------------- *)

\* FXA_SCOPES: the default scope and the additional ones that are set.
FXA_SCOPES == 1..MaxScopes

\* Awaiting the tasks in the order of their creation: the next task if it
\* is done, or 0.
in_order_of_creation(completed, consumed) ==
    IF \E i \in DOMAIN completed : completed[i] = consumed + 1
    THEN consumed + 1 ELSE 0

\* asyncio.as_completed after consumed tasks have been awaited: the task
\* that was the next to be done, or 0 while there is none.
as_completed(completed, consumed) ==
    IF consumed < Len(completed) THEN completed[consumed + 1] ELSE 0

\* client.verify_token for the task of scope ends, with the profile or with
\* an exception.
VerifyTokenDone(scope) ==
    /\ fxa.pc = "await" /\ fxa.task[scope] = "running"
    /\ fxa' = [fxa EXCEPT !.task[scope] = "done",
                          !.completed = Append(@, scope)]
    /\ UNCHANGED <<attest_vars, completion, stream, bearer, play, http, chat_vars, service_vars>>

\* fxa_auth goes on after `await task`: with a profile it is going to
\* return it, and its finally asks the tasks that are not done to cancel;
\* with an exception it keeps the error and awaits the next task, or is
\* going to raise 401 after the last. Either way it leaves through the
\* gather of its finally.
FxaAwait ==
    /\ fxa.pc = "await"
    /\ LET scope == as_completed(fxa.completed, fxa.consumed) IN
        /\ scope # 0
        /\ fxa' =
            IF fxa.verify_token[scope] = "profile"
            THEN [fxa EXCEPT !.pc = "gather",
                    !.consumed = @ + 1,
                    !.task = [s \in FXA_SCOPES |->
                                IF @[s] = "done" THEN "done" ELSE "cancelling"],
                    !.result = [kind |-> "profile", scope |-> scope,
                                status_code |-> 0, detail |-> ""]]
            ELSE IF fxa.consumed + 1 = MaxScopes
            THEN [fxa EXCEPT !.pc = "gather",
                    !.consumed = @ + 1, !.errors = Append(@, scope),
                    !.result = [kind |-> "HTTPException", scope |-> 0,
                                status_code |-> 401, detail |-> "Invalid FxA auth"]]
            ELSE [fxa EXCEPT !.consumed = @ + 1, !.errors = Append(@, scope)]
    /\ UNCHANGED <<attest_vars, completion, stream, bearer, play, http, chat_vars, service_vars>>

\* A task that was asked to cancel ends, cancelled.
TaskCancelled(scope) ==
    /\ fxa.pc = "gather" /\ fxa.task[scope] = "cancelling"
    /\ fxa' = [fxa EXCEPT !.task[scope] = "cancelled"]
    /\ UNCHANGED <<attest_vars, completion, stream, bearer, play, http, chat_vars, service_vars>>

\* fxa_auth going on without waiting for its tasks.
gathered_without_await(task) ==
    TRUE

\* await asyncio.gather(*tasks, return_exceptions=True) is over when every
\* task has ended, with a result, an exception or cancelled.
gathered(task) ==
    \A scope \in FXA_SCOPES : task[scope] \in {"done", "cancelled"}

\* The gather of the finally is over: fxa_auth returns the profile or
\* raises its 401.
FxaGather ==
    /\ fxa.pc = "gather"
    /\ gathered(fxa.task)
    /\ fxa' = [fxa EXCEPT !.pc = "done"]
    /\ UNCHANGED <<attest_vars, completion, stream, bearer, play, http, chat_vars, service_vars>>

\* fxa_auth has created a task per scope; verify_token is going to give a
\* profile or to raise for each.
InitFxa ==
    /\ InitAttest
    /\ completion = NoCompletion
    /\ stream = NoStream
    /\ bearer = NoBearer
    /\ play = NoPlay
    /\ fxa \in [pc : {"await"}, verify_token : [FXA_SCOPES -> {"profile", "exception"}],
                task : {[s \in FXA_SCOPES |-> "running"]}, completed : {<<>>},
                consumed : {0}, errors : {<<>>},
                result : {[kind |-> "none", scope |-> 0, status_code |-> 0,
                           detail |-> ""]}]
    /\ http = NoHttp
    /\ InitUsers
    /\ InitServices

NextFxa ==
    \/ \E scope \in FXA_SCOPES : VerifyTokenDone(scope)
    \/ FxaAwait
    \/ \E scope \in FXA_SCOPES : TaskCancelled(scope)
    \/ FxaGather

SpecFxa == InitFxa /\ [][NextFxa]_vars

(* ---------------- the middleware and the request size ---------------- *)

MIDDLEWARE_EXECUTION_ORDER ==
    <<"check_request_size_middleware", "instrument_requests_middleware">>

\* app.middleware("http")(f): the middleware registered last is put in front
\* of the others and runs first.
add_middleware(user_middleware, middleware_func) ==
    <<middleware_func>> \o user_middleware

RECURSIVE registered(_, _)
\* The middleware of the app after the registration of funcs, one after the
\* other.
registered(user_middleware, funcs) ==
    IF funcs = <<>> THEN user_middleware
    ELSE registered(add_middleware(user_middleware, Head(funcs)), Tail(funcs))

\* register_middleware registering in the order of MIDDLEWARE_EXECUTION_ORDER.
register_middleware_in_order ==
    registered(<<>>, MIDDLEWARE_EXECUTION_ORDER)

\* register_middleware on a new app: the middleware from the outermost to
\* the innermost.
register_middleware ==
    registered(<<>>, [i \in DOMAIN MIDDLEWARE_EXECUTION_ORDER |->
        MIDDLEWARE_EXECUTION_ORDER[Len(MIDDLEWARE_EXECUTION_ORDER) + 1 - i]])

Digits == <<"0", "1", "2", "3", "4", "5", "6", "7", "8", "9">>

RECURSIVE digits_value(_)
\* The number a str of decimal digits writes, or -1 if a character of it is
\* no digit.
digits_value(text) ==
    IF text = <<>> THEN 0
    ELSE LET last == text[Len(text)]
             front == digits_value(SubSeq(text, 1, Len(text) - 1)) IN
         IF front = -1 \/ ~\E d \in DOMAIN Digits : Digits[d] = last THEN -1
         ELSE 10 * front + (CHOOSE d \in DOMAIN Digits : Digits[d] = last) - 1

\* int(content_length): the number in a row, or None for its ValueError.
int(text) ==
    LET signed == text # <<>> /\ text[1] \in {"+", "-"}
        body == IF signed THEN Tail(text) ELSE text IN
    IF body = <<>> \/ digits_value(body) = -1 THEN None
    ELSE IF signed /\ text[1] = "-" THEN Row(0 - digits_value(body))
    ELSE Row(digits_value(body))

\* The requests: path, method, and the Content-Length header, absent (None)
\* or a str.
HttpRequests ==
    [path : {"/v1/chat/completions", "/v1/chat/completions/", "/verify/play"},
     method : {"POST", "GET"},
     content_length :
        {None}
            \cup {Row(<<>>), Row(<<"a">>), Row(<<"1", "e", "1">>), Row(<<"-", "9">>),
                  Row(<<"+", "9">>)}
            \cup {Row(<<Digits[d]>>) : d \in 1..(MAX_REQUEST_SIZE_BYTES + 2)}
            \cup {Row(<<"0", Digits[d]>>) : d \in 1..(MAX_REQUEST_SIZE_BYTES + 2)}
            \cup {Row(<<"1", "0">>)}]

\* check_request_size_middleware: 413 for its JSONResponse, 0 for call_next.
check_request_size_middleware(req) ==
    IF req.path = "/v1/chat/completions" /\ req.method = "POST"
        /\ req.content_length # None /\ req.content_length[1] # <<>>
        /\ int(req.content_length[1]) # None
        /\ int(req.content_length[1])[1] > MAX_REQUEST_SIZE_BYTES
    THEN 413 ELSE 0

\* The next middleware of the app runs on the request: it answers, or it
\* calls the next one. History: ran, what has run on the request.
MiddlewareStep ==
    /\ http.pc = "middleware" /\ http.next <= Len(http.user_middleware)
    /\ LET middleware_func == http.user_middleware[http.next]
           seen == [http EXCEPT !.ran = Append(@, middleware_func),
                                !.next = @ + 1] IN
        http' =
            IF middleware_func = "check_request_size_middleware"
                /\ check_request_size_middleware(http.request) = 413
            THEN [seen EXCEPT !.pc = "responded", !.status_code = 413,
                              !.content = "Request body too large."]
            ELSE seen
    /\ UNCHANGED <<attest_vars, completion, stream, bearer, play, fxa, chat_vars, service_vars>>

\* After the last middleware the router runs: for the chat route the
\* dispatcher authorize_request, which may refuse, and then the handler.
RouteStep(authorized) ==
    /\ http.pc = "middleware" /\ http.next > Len(http.user_middleware)
    /\ http' =
        IF http.request.path # "/v1/chat/completions" \/ http.request.method # "POST"
        THEN [http EXCEPT !.pc = "responded", !.ran = Append(@, "another route"),
                          !.status_code = 200]
        ELSE IF ~authorized
        THEN [http EXCEPT !.pc = "responded", !.ran = Append(@, "authorize_request"),
                          !.status_code = 401]
        ELSE [http EXCEPT !.pc = "responded",
                          !.ran = @ \o <<"authorize_request", "chat_completion">>,
                          !.status_code = 200]
    /\ UNCHANGED <<attest_vars, completion, stream, bearer, play, fxa, chat_vars, service_vars>>

\* A request arrives at the app register_middleware has set up.
InitHttp ==
    /\ InitAttest
    /\ completion = NoCompletion
    /\ stream = NoStream
    /\ bearer = NoBearer
    /\ play = NoPlay
    /\ fxa = NoFxa
    /\ http \in [pc : {"middleware"}, user_middleware : {register_middleware},
                 request : HttpRequests, next : {1}, ran : {<<>>},
                 status_code : {0}, content : {""}]
    /\ InitUsers
    /\ InitServices

NextHttp ==
    \/ MiddlewareStep
    \/ \E authorized \in BOOLEAN : RouteStep(authorized)

SpecHttp == InitHttp /\ [][NextHttp]_vars

\* The rest of the gateway with no call in it.
InitCalls ==
    /\ completion = NoCompletion
    /\ stream = NoStream
    /\ bearer = NoBearer
    /\ play = NoPlay
    /\ fxa = NoFxa
    /\ http = NoHttp

(* ---------------- blocked users and chat_completion ---------------- *)

\* The user ids ("identity:service_type") of the requests.
EndUsers == {"user1:ai", "user2:ai"}

\* The check of chat_completion never finding the user blocked.
blocked_response_never(user) ==
    0

\* chat_completion after get_or_create_user: 403 for its
\* HTTPException(403, {"error": "User is blocked."}), 0 to go on.
blocked_response(user) ==
    IF user.blocked THEN 403 ELSE 0

\* chat_completion starts for a request authorize_request has authorized as
\* user_id. History: in_force, the user was blocked when the request was
\* authorized and no unblock_user has succeeded since.
ChatStart(p, user_id) ==
    /\ chat[p].pc = "none"
    /\ chat' = [chat EXCEPT ![p] =
            [@ EXCEPT !.pc = "info", !.user_id = user_id,
                      !.in_force = user_id \in DOMAIN end_users
                                    /\ end_users[user_id].blocked]]
    /\ UNCHANGED <<attest_vars, call_vars, service_vars, end_users, admin>>

\* get_or_create_user: LiteLLM answers GET /customer/info with the row of
\* the user or without one, or the call fails (500). Without a row the first
\* time the user is to be created; the second time the answer is taken as
\* it is.
ChatInfo(p, ok) ==
    /\ chat[p].pc \in {"info", "info_again"}
    /\ LET r == chat[p] IN
        chat' = [chat EXCEPT ![p] =
            IF ~ok
            THEN [r EXCEPT !.pc = "done", !.status_code = 500,
                           !.error = "Error fetching user info"]
            ELSE IF r.user_id \in DOMAIN end_users
            THEN [r EXCEPT !.pc = "decide", !.user = end_users[r.user_id]]
            ELSE IF r.pc = "info" THEN [r EXCEPT !.pc = "create"]
            ELSE [r EXCEPT !.pc = "decide"]]
    /\ UNCHANGED <<attest_vars, call_vars, service_vars, end_users, admin>>

\* get_or_create_user: POST /customer/new creates the user, unblocked, or
\* LiteLLM refuses (the status is not looked at), or the call fails (500).
ChatCreate(p, outcome) ==
    /\ chat[p].pc = "create"
    /\ chat' = [chat EXCEPT ![p] =
            IF outcome = "exception"
            THEN [@ EXCEPT !.pc = "done", !.status_code = 500,
                           !.error = "Error fetching user info"]
            ELSE [@ EXCEPT !.pc = "info_again"]]
    /\ end_users' =
        IF outcome = "created" /\ chat[p].user_id \notin DOMAIN end_users
        THEN [u \in DOMAIN end_users \cup {chat[p].user_id} |->
                IF u \in DOMAIN end_users THEN end_users[u] ELSE [blocked |-> FALSE]]
        ELSE end_users
    /\ UNCHANGED <<attest_vars, call_vars, service_vars, admin>>

\* chat_completion with the user get_or_create_user returned: 403 for a
\* blocked user, else the completion request goes to the backend.
ChatDecide(p) ==
    /\ chat[p].pc = "decide"
    /\ chat' = [chat EXCEPT ![p] =
            IF blocked_response(@.user) = 403
            THEN [@ EXCEPT !.pc = "done", !.status_code = 403,
                           !.error = "User is blocked."]
            ELSE [@ EXCEPT !.pc = "done", !.status_code = 200,
                           !.sent_to_backend = TRUE]]
    /\ UNCHANGED <<attest_vars, call_vars, service_vars, end_users, admin>>

\* POST /user/{user_id}/block and /unblock: litellm_pg.block_user in its
\* transaction. The UPDATE finds the row and sets blocked, or finds none
\* (404), or the database fails (500). History: admin, the last call with
\* the table it found and the table it left.
BlockUser(user_id, blocked, db) ==
    /\ end_users' =
        IF db = "ok" /\ user_id \in DOMAIN end_users
        THEN [end_users EXCEPT ![user_id].blocked = blocked]
        ELSE end_users
    /\ admin' = [user_id |-> user_id, blocked |-> blocked, before |-> end_users,
                 after |-> end_users',
                 status_code |-> IF db = "error" THEN 500
                                 ELSE IF user_id \notin DOMAIN end_users THEN 404
                                 ELSE 200]
    /\ chat' = [p \in Procs |->
            IF admin'.status_code = 200 /\ ~blocked /\ chat[p].user_id = user_id
            THEN [chat[p] EXCEPT !.in_force = FALSE] ELSE chat[p]]
    /\ UNCHANGED <<attest_vars, call_vars, service_vars>>

\* The gateway with some users in LiteLLM_EndUserTable, blocked or not, and
\* no chat request yet.
InitChat ==
    /\ InitAttest
    /\ InitCalls
    /\ end_users \in UNION {[D -> [blocked : BOOLEAN]] : D \in SUBSET EndUsers}
    /\ chat = [p \in Procs |-> NoChat]
    /\ admin = NoAdmin
    /\ InitServices

NextChat ==
    \/ \E p \in Procs, user_id \in EndUsers : ChatStart(p, user_id)
    \/ \E p \in Procs, ok \in BOOLEAN : ChatInfo(p, ok)
    \/ \E p \in Procs, outcome \in {"created", "refused", "exception"} :
            ChatCreate(p, outcome)
    \/ \E p \in Procs : ChatDecide(p)
    \/ \E user_id \in EndUsers, blocked \in BOOLEAN, db \in DbOutcomes :
            BlockUser(user_id, blocked, db)

SpecChat == InitChat /\ [][NextChat]_vars

(* ---------------- _load_root_ca ---------------- *)
\* appattest.py:30-58 under @lru_cache(maxsize=1), and the lines of
\* verify_attest (107-120) and verify_assert (187-198) that build the
\* AppleConfig from it. env.APP_ATTEST_QA is read from the environment when
\* the process starts and stays as it is; the files are what the process
\* finds on disk at each load.

\* The roots a certificate chain can lead to.
Roots == {"production", "qa"}

\* What ensure_qa_certificates and qa_cert_path.exists() find.
QaFiles == {"present", "missing", "QACertificateError"}

load_root_ca_selector_only(APP_ATTEST_QA, use_qa_certificates, qa_files, production_file) ==
    IF use_qa_certificates = "true" /\ qa_files = "QACertificateError"
    THEN [raised |-> "QACertificateError"]
    ELSE IF use_qa_certificates = "true" /\ qa_files = "present"
    THEN [root_ca |-> "qa"]
    ELSE IF production_file THEN [root_ca |-> "production"]
    ELSE [raised |-> "FileNotFoundError"]

\* The body of _load_root_ca: the test root only when env.APP_ATTEST_QA and
\* the selector are both true and the file is there, the production root in
\* every other case, FileNotFoundError when that file is absent.
load_root_ca(APP_ATTEST_QA, use_qa_certificates, qa_files, production_file) ==
    IF APP_ATTEST_QA /\ use_qa_certificates = "true" /\ qa_files = "QACertificateError"
    THEN [raised |-> "QACertificateError"]
    ELSE IF APP_ATTEST_QA /\ use_qa_certificates = "true" /\ qa_files = "present"
    THEN [root_ca |-> "qa"]
    ELSE IF production_file THEN [root_ca |-> "production"]
    ELSE [raised |-> "FileNotFoundError"]

\* lru_cache(maxsize=1): a hit returns the value kept for the same argument;
\* a miss runs the body; an exception is not cached.
cached_load(t, use_qa_certificates, qa_files, production_file) ==
    IF t.cache # None /\ t.cache[1].key = use_qa_certificates
    THEN [root_ca |-> t.cache[1].value]
    ELSE load_root_ca(t.APP_ATTEST_QA, use_qa_certificates, qa_files, production_file)

\* The cache after a call that ended in loaded.
cache_after(t, use_qa_certificates, loaded) ==
    IF "root_ca" \in DOMAIN loaded
    THEN Row([key |-> use_qa_certificates, value |-> loaded.root_ca])
    ELSE t.cache

\* verify_attest or verify_assert (procedure) with the selector of its
\* request and a credential whose certificate chain leads to chain: the
\* root is loaded, the AppleConfig is built with it and the verification
\* runs against that root. An exception of _load_root_ca is outside the try
\* block and leaves as it is (500).
VerifyWithRoot(procedure, use_qa_certificates, chain, qa_files, production_file) ==
    LET loaded == cached_load(trust, use_qa_certificates, qa_files, production_file)
        status_code == IF "raised" \in DOMAIN loaded THEN 500
                       ELSE IF chain = loaded.root_ca THEN 200 ELSE 403
        config == IF "raised" \in DOMAIN loaded THEN trust.config
                  ELSE [trust.config EXCEPT ![procedure][use_qa_certificates] =
                                                loaded.root_ca]
    IN  /\ trust' = [trust EXCEPT
                        !.cache = cache_after(trust, use_qa_certificates, loaded),
                        !.config = config,
                        !.last = [procedure |-> procedure,
                                  use_qa_certificates |-> use_qa_certificates,
                                  chain |-> chain,
                                  status_code |-> status_code]]
        /\ UNCHANGED <<attest_vars, call_vars, chat_vars, pg, litellm>>

Procedures == {"verify_attest", "verify_assert"}

InitTrust ==
    /\ InitAttest
    /\ InitCalls
    /\ InitUsers
    /\ \E APP_ATTEST_QA \in BOOLEAN :
            trust = [NoTrust EXCEPT !.APP_ATTEST_QA = APP_ATTEST_QA]
    /\ pg = NoPg
    /\ litellm = NoLitellm

NextTrust ==
    \E procedure \in Procedures, use_qa_certificates \in Flags, chain \in Roots,
       qa_files \in QaFiles, production_file \in BOOLEAN :
            VerifyWithRoot(procedure, use_qa_certificates, chain, qa_files,
                           production_file)

SpecTrust == InitTrust /\ [][NextTrust]_vars

(* ---------------- PGService._get_prepared_statement ---------------- *)
\* pg_service.py:16-50. A connection object is what pool.acquire() hands to
\* the caller; it has an identity of its own (obj), the value id() gives for
\* it while it exists, and it goes away when the caller has released it.
\* Whether such objects can be weakly referenced is a property of their
\* class; the method handles both cases (TypeError, lines 32 and 42), and so
\* does the model. id() is unique among the objects that exist together;
\* the id of an object that has gone can be given to a later one.

Queries == {"q1", "q2", "q3"}
Ids == 1..MaxIds

\* A statement prepared by conn.prepare(query).
prepare(conn, query) == [query |-> query, prepared_on |-> conn.obj]

\* LRUCache(maxsize=env.PG_PREPARED_STMT_CACHE_MAX_SIZE): the statements it
\* holds, least recently used first; used is the history of the queries
\* asked through it, least recently asked first.
NewCache == [stmts |-> <<>>, used |-> <<>>]

\* s without query, in the same order.
without(s, query) == SelectSeq(s, LAMBDA e : e # query)

\* query in stmt_cache.
held(cache, query) == \E i \in 1..Len(cache.stmts) : cache.stmts[i].query = query

\* stmt_cache[query]: the statement, which becomes the most recently used.
getitem(cache, query) ==
    LET i == CHOOSE i \in 1..Len(cache.stmts) : cache.stmts[i].query = query
        rest == SelectSeq(cache.stmts, LAMBDA e : e.query # query)
    IN  [value |-> cache.stmts[i],
         cache |-> [stmts |-> Append(rest, cache.stmts[i]),
                    used |-> Append(without(cache.used, query), query)]]

\* stmt_cache[query] = prepared_stmt for a query the cache does not hold:
\* a full cache drops its least recently used statement first.
setitem(cache, query, prepared_stmt) ==
    LET room == IF Len(cache.stmts) >= PG_PREPARED_STMT_CACHE_MAX_SIZE
                THEN Tail(cache.stmts) ELSE cache.stmts
    IN  [stmts |-> Append(room, prepared_stmt),
         used |-> Append(without(cache.used, query), query)]

\* Lines 28-43: the dictionary (and key) in which the cache of conn is found
\* or, when there is none, created.
cache_place(conn) ==
    IF pg.weakrefable /\ conn.obj \in DOMAIN pg.stmt_caches THEN "stmt_caches"
    ELSE IF conn.id \in DOMAIN pg.stmt_caches_by_id THEN "stmt_caches_by_id"
    ELSE IF pg.weakrefable THEN "stmt_caches"
    ELSE "stmt_caches_by_id"

cache_of(conn) ==
    IF cache_place(conn) = "stmt_caches"
    THEN IF conn.obj \in DOMAIN pg.stmt_caches THEN pg.stmt_caches[conn.obj]
         ELSE NewCache
    ELSE IF conn.id \in DOMAIN pg.stmt_caches_by_id THEN pg.stmt_caches_by_id[conn.id]
         ELSE NewCache

\* table with key bound to value.
bind(table, key, value) ==
    [x \in DOMAIN table \cup {key} |-> IF x = key THEN value ELSE table[x]]

\* pool.acquire(): a connection object comes into being.
Acquire(id) ==
    /\ pg.created < MaxConnections
    /\ Cardinality(pg.live) < MaxLive
    /\ \A c \in pg.live : c.id # id
    /\ pg' = [pg EXCEPT !.created = @ + 1,
                        !.live = @ \cup {[obj |-> pg.created + 1, id |-> id]}]
    /\ UNCHANGED <<attest_vars, call_vars, chat_vars, trust, litellm>>

\* The caller has released conn and the object is gone: a weak dictionary
\* loses its entry, an ordinary one keeps it.
Release(conn) ==
    /\ conn \in pg.live
    /\ pg' = [pg EXCEPT
                !.live = @ \ {conn},
                !.stmt_caches = [o \in DOMAIN @ \ {conn.obj} |-> @[o]]]
    /\ UNCHANGED <<attest_vars, call_vars, chat_vars, trust, litellm>>

\* _get_prepared_statement(conn, query), conn.prepare ending in outcome.
GetPreparedStatement(conn, query, outcome) ==
    LET place == cache_place(conn)
        stmt_cache == cache_of(conn)
        hit == held(stmt_cache, query)
        got == getitem(stmt_cache, query)
        prepared_stmt == prepare(conn, query)
        after == IF hit THEN got.cache
                 ELSE IF outcome = "ok" THEN setitem(stmt_cache, query, prepared_stmt)
                 ELSE stmt_cache
        returned == IF hit THEN Row(got.value)
                    ELSE IF outcome = "ok" THEN Row(prepared_stmt)
                    ELSE None
    IN  /\ conn \in pg.live
        /\ pg' = [pg EXCEPT
                    !.stmt_caches = IF place = "stmt_caches"
                                    THEN bind(@, conn.obj, after) ELSE @,
                    !.stmt_caches_by_id = IF place = "stmt_caches_by_id"
                                          THEN bind(@, conn.id, after) ELSE @,
                    !.call = [conn |-> conn, query |-> query, hit |-> hit,
                              returned |-> returned]]
        /\ UNCHANGED <<attest_vars, call_vars, chat_vars, trust, litellm>>

InitPg ==
    /\ InitAttest
    /\ InitCalls
    /\ InitUsers
    /\ trust = NoTrust
    /\ \E weakrefable \in BOOLEAN : pg = [NoPg EXCEPT !.weakrefable = weakrefable]
    /\ litellm = NoLitellm

NextPg ==
    \/ \E id \in Ids : Acquire(id)
    \/ \E conn \in pg.live : Release(conn)
    \/ \E conn \in pg.live, query \in Queries, outcome \in {"ok", "raises"} :
            GetPreparedStatement(conn, query, outcome)

SpecPg == InitPg /\ [][NextPg]_vars

(* ---------------- get_or_create_user and its budget ---------------- *)
\* utils.py:16-56 behind authorize_request (authorize.py:37-53). A str is
\* the sequence of its pieces: ":" stands for the colon, any other piece for
\* a run of characters without a colon.

\* env.user_feature_budget (config.py:31-53), the budget_id of each entry.
user_feature_budget ==
    [st \in ServiceTypes |->
        [budget_id |-> IF st = "ai" THEN "end-user-budget-ai"
                       ELSE "end-user-budget-s2s"]]

\* The identities the schemes hand to authorize_request: the key_id_b64 of
\* an assertion and the uid of an FxA token (base64 and hex text, no colon),
\* and the sub of an MLPA access token, which is the user_id the client chose
\* in its POST /verify/play request (play.py:84-96, any str).
IdentitiesOf(scheme) ==
    IF scheme = "play_integrity"
    THEN {<<"u">>, <<"u", ":", "s2s">>, <<"u", ":", "v">>, <<":", "ai">>}
    ELSE {<<"u">>}

\* str.split(sep): the list of the parts of s between the separators.
RECURSIVE split(_, _)
split(s, sep) ==
    IF \A i \in 1..Len(s) : s[i] # sep THEN <<s>>
    ELSE LET i == CHOOSE i \in 1..Len(s) :
                    s[i] = sep /\ \A j \in 1..(i - 1) : s[j] # sep
         IN  <<SubSeq(s, 1, i - 1)>> \o split(SubSeq(s, i + 1, Len(s)), sep)

\* user_id.split(":")[1] and the lookup of its budget_id: the budget_id, or
\* None for the KeyError of a part that is no service type.
budget_id_of(user_id) ==
    LET service_type == split(user_id, ":")[2]
    IN  IF Len(service_type) = 1 /\ service_type[1] \in DOMAIN user_feature_budget
        THEN Row(user_feature_budget[service_type[1]].budget_id)
        ELSE None

\* authorize_request has produced the user of a request of service_type
\* from the identity its scheme gave, and chat_completion calls
\* get_or_create_user with it: KeyError before the try block (500), or a
\* failing LiteLLM call (500), or the customer is found, or it is created
\* with the budget_id and read again. History: created_for, the service type
\* of the request a customer was created for.
GetOrCreateUser(scheme, identity, service_type, outcome) ==
    LET user_id == principal(identity, service_type)
        budget_id == budget_id_of(user_id)
        create == /\ budget_id # None
                  /\ outcome = "ok"
                  /\ user_id \notin DOMAIN litellm.customers
        customers == IF create
                     THEN [u \in DOMAIN litellm.customers \cup {user_id} |->
                            IF u = user_id
                            THEN [budget_id |-> budget_id[1],
                                  created_for |-> service_type]
                            ELSE litellm.customers[u]]
                     ELSE litellm.customers
    IN  /\ litellm' = [customers |-> customers,
                       call |-> [scheme |-> scheme, user_id |-> user_id,
                                 service_type |-> service_type,
                                 status_code |-> IF budget_id = None \/ outcome # "ok"
                                                 THEN 500 ELSE 200,
                                 was_created |-> create]]
        /\ UNCHANGED <<attest_vars, call_vars, chat_vars, trust, pg>>

Schemes == {"app_attest", "play_integrity", "fxa"}

InitLitellm ==
    /\ InitAttest
    /\ InitCalls
    /\ InitUsers
    /\ trust = NoTrust
    /\ pg = NoPg
    /\ litellm = NoLitellm

NextLitellm ==
    \E scheme \in Schemes, service_type \in ServiceTypes,
       outcome \in {"ok", "exception"} :
        \E identity \in IdentitiesOf(scheme) :
            GetOrCreateUser(scheme, identity, service_type, outcome)

SpecLitellm == InitLitellm /\ [][NextLitellm]_vars

InitGateway ==
    /\ InitCalls
    /\ InitUsers
    /\ InitServices

Init ==
    /\ InitAttest
    /\ InitGateway

\* The states enrollment leaves behind (SpecKeys, SpecAttestRoute): no key,
\* or a key stored by verify_attest with the key and counter of its
\* attestation, or a verify_attest that returned success while store_key
\* failed.
InitAuthorize ==
    /\ challenges = <<>>
    /\ public_keys \in {<<>>} \cup
            {store_key(<<>>, k, pem, c) : k \in Keys, pem \in Pems, c \in Counters}
    /\ now = 0
    /\ urandom = 0
    /\ proc = [p \in Procs |-> Idle]
    /\ attested \in {a \in SUBSET Keys : DOMAIN public_keys \subseteq a}
    /\ request = [p \in Procs |-> NoRequest]
    /\ InitGateway

\* A step of request p in the challenge store, its storage call ending in out.
ChallengeStep(p, out) ==
    \/ Direct(p) /\ \E k \in Keys : IssueGet(p, k, out)
    \/ Direct(p) /\ IssueStore(p, out)
    \/ Direct(p) /\ \E k \in Keys, c \in 0..urandom : ValidateGet(p, k, c, out)
    \/ Direct(p) /\ ValidateDelete(p, out)

\* A request for enrollment arrives.
AttestStart(p) ==
    Direct(p) /\ \E k \in Keys, att \in Attestations : AttestVerify(p, k, att)

\* A step of request p in the key store, its storage call ending in out.
KeyStep(p, out) ==
    \/ Direct(p) /\ AttestStore(p, out)
    \/ Direct(p) /\ \E k \in Keys, assertion \in Assertions :
                        AssertLookup(p, k, assertion, out)
    \/ Direct(p) /\ AssertUpdate(p, out)

NextChallenge ==
    \/ \E p \in Procs, out \in DbOutcomes : ChallengeStep(p, out)
    \/ \E p \in Procs : Direct(p) /\ Return(p)
    \/ Tick

NextKeys ==
    \/ \E p \in Procs : AttestStart(p)
    \/ \E p \in Procs, out \in DbOutcomes : KeyStep(p, out)
    \/ \E p \in Procs : Direct(p) /\ Return(p)

Next ==
    \/ \E p \in Procs, out \in DbOutcomes : ChallengeStep(p, out)
    \/ \E p \in Procs : AttestStart(p)
    \/ \E p \in Procs, out \in DbOutcomes : KeyStep(p, out)
    \/ \E p \in Procs : Direct(p) /\ Return(p)
    \/ Tick

\* The same two components over a store whose calls never raise.
\* POST /verify/attest, with GET /verify/challenge to issue challenges.
NextAttestRoute ==
    \/ \E p \in Procs, out \in DbOutcomes : ChallengeRoute(p, out)
    \/ \E p \in Procs, out \in DbOutcomes : AttestRouteStep(p, out)
    \/ \E p \in Procs, out \in DbOutcomes : RouteChallengeDelete(p, out)
    \/ \E p \in Procs : RouteChallengeChecked(p)
    \/ \E p \in Procs : Finish(p)
    \/ Tick

\* authorize_request, with GET /verify/challenge to issue challenges. The
\* clock stands still: a challenge is refused here because it is absent or
\* different or could not be read; expiry is part of SpecChallenge and
\* SpecAttestRoute.
NextAuthorize ==
    \/ \E p \in Procs, out \in DbOutcomes : ChallengeRoute(p, out)
    \/ \E p \in Procs, out \in DbOutcomes : AuthorizeStep(p, out)
    \/ \E p \in Procs, out \in DbOutcomes : RouteChallengeDelete(p, out)
    \/ \E p \in Procs : RouteChallengeChecked(p)
    \/ \E p \in Procs : Finish(p)

NextChallengeReliable ==
    \/ \E p \in Procs : ChallengeStep(p, "ok")
    \/ \E p \in Procs : Direct(p) /\ Return(p)
    \/ Tick

NextKeysReliable ==
    \/ \E p \in Procs : AttestStart(p)
    \/ \E p \in Procs : KeyStep(p, "ok")
    \/ \E p \in Procs : Direct(p) /\ Return(p)

Spec == Init /\ [][Next]_vars
SpecChallenge == Init /\ [][NextChallenge]_vars
SpecKeys == Init /\ [][NextKeys]_vars
SpecChallengeReliable == Init /\ [][NextChallengeReliable]_vars
SpecKeysReliable == Init /\ [][NextKeysReliable]_vars
SpecAttestRoute == Init /\ [][NextAttestRoute]_vars
SpecAuthorize == InitAuthorize /\ [][NextAuthorize]_vars

(* ---------------- properties ---------------- *)

\* Request p has returned from a call of op.
Returned(p, op) ==
    proc[p].pc = "done" /\ proc[p].op = op

\* The calls that p and q have returned from ran at the same time.
Overlapped(p, q) ==
    p # q /\ q \in proc[p].overlaps /\ p \in proc[q].overlaps

\* C1: when two verify_assert calls carrying the same assertion for one key
\* run concurrently, they do not both return success.
C1_ConcurrentAssertSucceedsOnce ==
    \A p, q \in Procs :
        (/\ Overlapped(p, q)
         /\ Returned(p, "assert") /\ Returned(q, "assert")
         /\ proc[p].key_id_b64 = proc[q].key_id_b64
         /\ proc[p].counter = proc[q].counter
         /\ proc[p].ret = "success")
            => proc[q].ret # "success"

\* C2: a verify_assert call goes on from its checks to the counter update,
\* its only way to success, only with an assertion whose counter is greater
\* than the stored counter of its key; with a counter that is at most the
\* stored one it ends at the checks with 403, the record untouched.
C2_ReplayRejected ==
    [][\A p \in Procs :
        /\ (proc[p].pc = "idle" /\ proc'[p].op = "assert")
            => /\ public_keys' = public_keys
               /\ \/ proc'[p].pc = "done" /\ proc'[p].ret = "403"
                  \/ /\ proc'[p].pc = "assert_update"
                     /\ proc'[p].key_id_b64 \in DOMAIN public_keys
                     /\ proc'[p].counter > public_keys[proc'[p].key_id_b64].counter
        /\ (proc'[p].op = "assert" /\ proc'[p].ret = "success")
            => proc[p].pc \in {"assert_update", "done"}]_vars

\* A replayed counter has been rejected.
C2_Witness ==
    \E p \in Procs :
        Returned(p, "assert") /\ proc[p].ret = "403" /\ proc[p].log = "counter_replay"

\* C3 as stated: no step lowers the counter of a stored key, be it a step of
\* an enrollment or of an assertion.
C3_CounterNeverDecreases ==
    [][\A k \in DOMAIN public_keys :
        /\ k \in DOMAIN public_keys'
        /\ public_keys'[k].counter >= public_keys[k].counter]_vars

\* C3 amended: a key's record is never removed; the counter update of an
\* assertion leaves the stored counter alone or raises it; a step that
\* lowers the stored counter is the store_key of an enrollment of that key.
C3_CounterLoweredOnlyByEnrollment ==
    [][\A k \in DOMAIN public_keys :
        /\ k \in DOMAIN public_keys'
        /\ (\E p \in Procs : proc[p].pc = "assert_update" /\ proc'[p].pc = "done")
            => public_keys'[k].counter >= public_keys[k].counter
        /\ public_keys'[k].counter < public_keys[k].counter
            => \E p \in Procs :
                /\ proc[p].pc = "attest_store" /\ proc'[p].pc = "done"
                /\ proc[p].key_id_b64 = k
                /\ proc[p].counter = public_keys'[k].counter]_vars

\* An assertion's counter update met a stored counter that was not smaller
\* and left it in place.
C3_Witness ==
    \E p \in Procs :
        /\ Returned(p, "assert") /\ proc[p].ret = "success"
        /\ proc[p].key_id_b64 \in DOMAIN public_keys
        /\ public_keys[proc[p].key_id_b64].counter > proc[p].counter

\* C4: when verify_assert returns success for an assertion with counter c,
\* the stored counter of its key is c.
C4_SuccessStoresCounter ==
    [][\A p \in Procs :
        (proc[p].pc = "assert_update" /\ proc'[p].pc = "done")
            => /\ proc'[p].ret = "success"
               /\ proc[p].key_id_b64 \in DOMAIN public_keys'
               /\ public_keys'[proc[p].key_id_b64].counter = proc[p].counter]_vars

\* C5: of two validate_challenge calls for one key with one value, the
\* second starting after the first has returned, not both return true
\* (issuance never hands out a value twice, so a challenge issued in
\* between carries another value).
C5_ChallengeSingleUse ==
    \A p, q \in Procs :
        (/\ p # q /\ ~Overlapped(p, q)
         /\ Returned(p, "validate") /\ Returned(q, "validate")
         /\ proc[p].key_id_b64 = proc[q].key_id_b64
         /\ proc[p].challenge = proc[q].challenge
         /\ proc[p].ret = "True")
            => proc[q].ret # "True"

\* C6: validate_challenge returns True or False; what it read is the row of
\* the key or nothing; it returns True exactly when it read a row whose age
\* at the check is at most CHALLENGE_EXPIRY_SECONDS and whose value is the
\* value presented.
C6_ValidateTrueOnlyIfLiveAndEqual ==
    [][\A p \in Procs :
        /\ (proc[p].pc = "idle" /\ proc'[p].pc = "validate_delete")
            => \/ proc'[p].stored_challenge = None
               \/ /\ proc'[p].key_id_b64 \in DOMAIN challenges
                  /\ proc'[p].stored_challenge = Row(challenges[proc'[p].key_id_b64])
        /\ (proc[p].pc = "validate_delete" /\ proc'[p].pc = "done")
            => LET stored == proc[p].stored_challenge IN
                /\ proc'[p].ret \in {"True", "False"}
                /\ proc'[p].ret = "True"
                    <=> /\ stored # None
                        /\ now - stored[1].created_at <= CHALLENGE_EXPIRY_SECONDS
                        /\ stored[1].challenge = proc[p].challenge]_vars

\* A validation has returned True.
C6_Witness ==
    \E p \in Procs : Returned(p, "validate") /\ proc[p].ret = "True"

\* C7: a generate_client_challenge call made while the key has a challenge
\* that is not expired returns that challenge and stores nothing.
C7_IssueIdempotent ==
    [][\A p \in Procs, k \in Keys :
        (/\ proc[p].pc = "idle" /\ proc'[p].op = "issue" /\ proc'[p].key_id_b64 = k
         /\ k \in DOMAIN challenges
         /\ now - challenges[k].created_at <= CHALLENGE_EXPIRY_SECONDS)
            => /\ proc'[p].pc = "done"
               /\ proc'[p].challenge = challenges[k].challenge]_vars

\* C8: two validate_challenge calls for one key with one value that run at
\* the same time do not both return true.
C8_ConcurrentValidateAtMostOneTrue ==
    \A p, q \in Procs :
        (/\ Overlapped(p, q)
         /\ Returned(p, "validate") /\ Returned(q, "validate")
         /\ proc[p].key_id_b64 = proc[q].key_id_b64
         /\ proc[p].challenge = proc[q].challenge
         /\ proc[p].ret = "True")
            => proc[q].ret # "True"

C10_SuccessPersistsRecord ==
    [][\A p \in Procs :
        (proc[p].pc = "attest_store" /\ proc'[p].pc = "done")
            => /\ proc'[p].ret = "success"
               /\ proc[p].key_id_b64 \in DOMAIN public_keys'
               /\ public_keys'[proc[p].key_id_b64] =
                    [public_key_pem |-> proc[p].pem, counter |-> proc[p].counter]]_vars

\* C12: a verify_attest whose attestation fails the chain verification, is
\* malformed, or carries a key that is not P-256 ends in its try block with
\* 403 and the detail "Attestation verification failed", whatever the cause,
\* and no step before the store_key of a valid attestation writes a record.
C12_AttestFailureGeneric ==
    [][\A p \in Procs :
        (proc[p].pc = "idle" /\ proc'[p].op = "attest")
            => /\ public_keys' = public_keys
               /\ \A k \in Keys, att \in Attestations :
                    (att.kind # "valid" /\ AttestVerify(p, k, att))
                        => /\ proc'[p].pc = "done"
                           /\ proc'[p].ret = "403"
                           /\ proc'[p].detail = "Attestation verification failed"]_vars

\* An attestation with a key that is not P-256 has been rejected.
C12_Witness ==
    \E p \in Procs :
        /\ Returned(p, "attest") /\ proc[p].ret = "403"
        /\ proc[p].log = "not_p256"

\* The assertions that verify_assert accepts for key k when it reads the
\* record of k: signed by the stored key, parsable, counter above the stored.
Acceptable(k) ==
    {a \in Assertions :
        /\ a.signer = public_keys[k].public_key_pem
        /\ a.parsable
        /\ a.counter > public_keys[k].counter}

\* C13: the step in which verify_assert rejects an assertion leaves every
\* key record as it is, and after a rejection for key k a verify_assert that
\* reads the record of k with an assertion signed by the stored key and a
\* counter above the stored one passes the checks; the call that passes the
\* checks returns success.
C13_RejectionKeepsKey ==
    [][\A p \in Procs :
        /\ (proc[p].pc = "idle" /\ proc'[p].op = "assert" /\ proc'[p].ret = "403")
            => public_keys' = public_keys
        /\ (/\ proc[p].pc = "idle" /\ proc'[p].op = "assert"
            /\ \E q \in Procs \ {p} :
                /\ Returned(q, "assert") /\ proc[q].ret = "403"
                /\ proc[q].key_id_b64 = proc'[p].key_id_b64
                /\ proc[q].log \in {"verification_failed", "counter_replay"})
            => LET k == proc'[p].key_id_b64 IN
                /\ k \in DOMAIN public_keys
                /\ \A a \in Acceptable(k) :
                    AssertLookup(p, k, a, "ok") => proc'[p].pc = "assert_update"
        /\ (proc[p].pc = "assert_update" /\ proc'[p].pc = "done")
            => proc'[p].ret = "success"]_vars

\* After a replay was rejected for a key, an assertion for that key has
\* returned success.
C13_Witness ==
    \E p, q \in Procs :
        /\ Returned(q, "assert") /\ proc[q].ret = "403"
        /\ proc[q].log = "counter_replay"
        /\ Returned(p, "assert") /\ proc[p].ret = "success"
        /\ proc[p].key_id_b64 = proc[q].key_id_b64
        /\ q \notin proc[p].overlaps

\* C11: a POST /verify/attest whose validate_challenge finds the challenge
\* absent, expired or different, or whose challenge another request had
\* consumed before it arrived, is answered 401 without a call of verify_attest
\* and without a change of public_keys.
C11_InvalidChallengeRejected ==
    [][\A p \in Procs :
        (/\ request[p].route = "attest"
         /\ request[p].phase = "challenge" /\ request'[p].phase # "challenge"
         /\ (proc[p].ret = "False" \/ request[p].repeat))
            => /\ request'[p].phase = "responded"
               /\ request'[p].status = "401"
               /\ proc'[p].pc = "idle"
               /\ public_keys' = public_keys]_vars

\* C11 without the already-consumed case.
C11_UnconsumedPart ==
    [][\A p \in Procs :
        (/\ request[p].route = "attest"
         /\ request[p].phase = "challenge" /\ request'[p].phase # "challenge"
         /\ proc[p].ret = "False")
            => /\ request'[p].phase = "responded"
               /\ request'[p].status = "401"
               /\ proc'[p].pc = "idle"
               /\ public_keys' = public_keys]_vars

HandledBy(r, pr) ==
    {sch \in {"app_attest", "play_integrity", "fxa"} :
        \/ /\ sch = "app_attest"
           /\ \/ pr.op \in {"validate", "assert"}
              \/ r.phase = "verify"
              \/ r.detail \in {"Invalid App assert", "Invalid Base64",
                               "Invalid or expired challenge",
                               "Invalid App Attest assertion"}
              \/ /\ r.status = "authorized"
                 /\ r.user = principal(<<"key_id_b64", r.key_id_b64>>, r.service_type)
        \/ /\ sch = "play_integrity"
           /\ \/ r.detail = "Invalid MLPA access token"
              \/ /\ r.status = "authorized"
                 /\ \E sub \in Subjects : r.user = principal(sub, r.service_type)
        \/ /\ sch = "fxa"
           /\ \/ r.detail = "Invalid FxA auth"
              \/ /\ r.status = "authorized"
                 /\ \E user \in FxaUsers : r.user = principal(user, r.service_type)}

\* C15: for every combination of the two flags one scheme is selected, App
\* Attest when use_app_attest is true, otherwise Play Integrity when
\* use_play_integrity is true, otherwise FxA; a request that carries a
\* credential is handled by the selected scheme and by no other, and a
\* request of another scheme than App Attest never calls the App Attest
\* engine.
C15_SchemeSelection ==
    /\ \A use_app_attest \in Flags, use_play_integrity \in Flags :
            selected_scheme(use_app_attest, use_play_integrity) =
                IF use_app_attest = "true" THEN "app_attest"
                ELSE IF use_app_attest \in {"None", "false"}
                        /\ use_play_integrity = "true" THEN "play_integrity"
                ELSE "fxa"
    /\ \A p \in Procs :
        (request[p].route = "chat" /\ request[p].detail # "Missing authorization header")
            => /\ HandledBy(request[p], proc[p]) = {request[p].scheme}
               /\ request[p].scheme \in {"play_integrity", "fxa"}
                    => proc[p].pc = "idle" /\ request[p].phase = "responded"

\* A request handled by App Attest is refused for a credential that is not
\* an assertion JWT, while another is handled by Play Integrity.
C15_Witness ==
    \E p, q \in Procs :
        /\ request[p].route = "chat" /\ request[p].scheme = "app_attest"
        /\ request[p].detail = "Invalid App assert"
        /\ request[q].route = "chat" /\ request[q].scheme = "play_integrity"
        /\ request[q].status = "authorized"

ChallengeThenAssertion(p) ==
    /\ (request[p].phase = "challenge" /\ request'[p].phase # "challenge")
        => IF proc[p].op = "validate" /\ proc[p].pc = "done" /\ proc[p].ret = "True"
           THEN request'[p].phase = "verify"
           ELSE /\ request'[p].phase = "responded"
                /\ request'[p].status = "401"
                /\ request'[p].user = <<>>
                /\ public_keys' = public_keys
    /\ (request[p].phase # "verify" /\ request'[p].phase = "verify")
        => request[p].phase = "challenge"
    /\ (proc[p].op # "assert" /\ proc'[p].op = "assert")
        => request[p].phase = "verify"
    /\ (request[p].phase # "responded" /\ request'[p].status = "authorized")
        => /\ request[p].phase = "verifying"
           /\ proc[p].op = "assert" /\ proc[p].ret = "success"

\* C17: in the App Attest scheme the challenge is consumed before the
\* assertion is verified and a principal is produced only if both succeed in
\* that order; a request whose challenge is refused never reaches
\* verify_assert and leaves public_keys unchanged; when a request is refused
\* for its assertion, the challenge it presented is no longer stored.
C17_ConsumeThenVerify ==
    [][\A p \in Procs :
        request[p].scheme = "app_attest"
            => /\ ChallengeThenAssertion(p)
               /\ (request[p].phase = "verifying" /\ request'[p].status = "401")
                    => ~ /\ request[p].key_id_b64 \in DOMAIN challenges'
                         /\ challenges'[request[p].key_id_b64].challenge
                                = request[p].challenge]_vars

\* C17 without its last part.
C17_OrderPart ==
    [][\A p \in Procs :
        request[p].scheme = "app_attest" => ChallengeThenAssertion(p)]_vars

\* C18: the user of every authorized request is identity, ":", service_type,
\* with the service_type the request arrived with and as identity the key of
\* the request for App Attest, a token subject for Play Integrity and an FxA
\* user for FxA; only an authorized request has a user, and a request is
\* authorized only when its scheme has verified its credential: a
\* verify_assert that returned success, or a token its scheme accepts.
C18_PrincipalFormat ==
    [][\A p \in Procs :
        LET r == request'[p] IN
        /\ (request[p].route = "chat" /\ r.route = "chat")
            => r.service_type = request[p].service_type
        /\ r.user # <<>> => r.route = "chat" /\ r.status = "authorized"
        /\ (r.route = "chat" /\ r.status = "authorized")
            => /\ Len(r.user) = 4
               /\ r.user[3] = ":"
               /\ r.user[4] = r.service_type
               /\ r.service_type \in ServiceTypes
               /\ LET identity == <<r.user[1], r.user[2]>> IN
                    CASE r.scheme = "app_attest" ->
                            /\ identity = <<"key_id_b64", r.key_id_b64>>
                            /\ request[p].phase = "responded"
                                \/ /\ request[p].phase = "verifying"
                                   /\ proc[p].op = "assert"
                                   /\ proc[p].ret = "success"
                                   /\ proc[p].key_id_b64 = r.key_id_b64
                      [] r.scheme = "play_integrity" ->
                            identity \in Subjects /\ r.accepted_by = "play_integrity"
                      [] r.scheme = "fxa" ->
                            identity \in FxaUsers /\ r.accepted_by = "fxa"
                      [] OTHER -> FALSE]_vars

\* One request is authorized by App Attest for one service type and another
\* by FxA for the other.
C18_Witness ==
    \E p, q \in Procs :
        /\ request[p].status = "authorized" /\ request[p].scheme = "app_attest"
        /\ request[q].status = "authorized" /\ request[q].scheme = "fxa"
        /\ request[p].service_type # request[q].service_type

\* The strings of a response body.
BodyStrings(text) ==
    IF text.form = "not_json" THEN {text.text}
    ELSE IF text.form # "object" THEN {}
    ELSE IF text.error.kind = "string" THEN {text.error.text}
    ELSE IF text.error.kind = "object"
    THEN {text.error.type, text.error.message, text.error.code}
    ELSE {}

\* The body of a response contains a keyword, in whatever case.
BodyContains(text, keyword) ==
    \E str \in BodyStrings(text) : contains(lower(str), keyword)

\* C19 as stated: every backend 4xx response whose body contains "budget"
\* makes get_completion raise 429 with {"error": 1} and Retry-After 86400,
\* and every one whose body contains "rate" and not "budget" 429 with
\* {"error": 2} and Retry-After 60.
C19_Every4xxWithKeyword ==
    (/\ completion.pc = "done" /\ completion.backend.kind = "response"
     /\ completion.backend.status_code \in 400..499)
        => LET text == completion.backend.text IN
            /\ BodyContains(text, budget)
                => completion.result =
                    HTTPException(429, ERROR_CODE_BUDGET_LIMIT_EXCEEDED, "", "86400")
            /\ (BodyContains(text, rate) /\ ~BodyContains(text, budget))
                => completion.result =
                    HTTPException(429, ERROR_CODE_RATE_LIMIT_EXCEEDED, "", "60")

\* The lower-cased type or message of the error object of a JSON body
\* contains a keyword.
ErrorMentions(text, keyword) ==
    /\ text.form = "object"
    /\ text.error.kind = "object"
    /\ \/ contains(lower(text.error.type), keyword)
       \/ contains(lower(text.error.message), keyword)

\* C19 amended: get_completion raises 429 with {"error": 1} and Retry-After
\* 86400 exactly for the backend responses of status 400 or 429 whose body
\* is a JSON object with an error object whose type or message contains
\* "budget" in whatever case, and 429 with {"error": 2} and Retry-After 60
\* exactly for those of status 400 or 429 whose error type or message
\* contains "rate" and neither contains "budget".
C19_RateLimitClassification ==
    (completion.pc = "done" /\ completion.backend.kind = "response")
        => LET text == completion.backend.text
               asked == completion.backend.status_code \in {400, 429} IN
            /\ (asked /\ ErrorMentions(text, budget))
                <=> completion.result =
                        HTTPException(429, ERROR_CODE_BUDGET_LIMIT_EXCEEDED, "", "86400")
            /\ (asked /\ ErrorMentions(text, rate) /\ ~ErrorMentions(text, budget))
                <=> completion.result =
                        HTTPException(429, ERROR_CODE_RATE_LIMIT_EXCEEDED, "", "60")

\* A 400 whose error message is "Budget" has been answered with the budget
\* code.
C19_Witness ==
    /\ completion.pc = "done" /\ completion.backend.kind = "response"
    /\ completion.backend.status_code = 400
    /\ completion.backend.text.form = "object"
    /\ completion.backend.text.error.kind = "object"
    /\ completion.backend.text.error.message = <<"B", "u", "d", "g", "e", "t">>
    /\ completion.backend.text.error.type = rate
    /\ completion.result.error_code = ERROR_CODE_BUDGET_LIMIT_EXCEEDED

\* get_completion has classified the response as budget or rate limit.
Classified(backend) ==
    /\ backend.status_code \in rate_limit_statuses
    /\ handle_rate_limit_error(backend) # None

\* C20: a backend response of status 400 or more that is not classified as
\* budget or rate limit, among them every 400 and 429 with a body that is
\* empty, no JSON or no JSON object and every response of another status,
\* makes get_completion raise the status of the backend with the error
\* "Upstream service returned an error"; an exception of the transport makes
\* it raise 502 with "Failed to proxy request".
C20_UpstreamErrorPassthrough ==
    completion.pc = "done"
        => LET backend == completion.backend IN
            /\ (backend.kind = "response" /\ backend.status_code >= 400)
                => /\ (\/ backend.status_code \notin {400, 429}
                       \/ backend.text.form \in {"empty", "not_json", "array"})
                        => ~Classified(backend)
                   /\ ~Classified(backend)
                        => completion.result =
                            [outcome |-> "raised",
                             status_code |-> backend.status_code, error_code |-> 0,
                             error |-> "Upstream service returned an error",
                             retry_after |-> ""]
            /\ backend.kind = "exception"
                => completion.result =
                    [outcome |-> "raised", status_code |-> 502, error_code |-> 0,
                     error |-> "Failed to proxy request", retry_after |-> ""]

\* A 429 whose body is no JSON has been passed on as 429.
C20_Witness ==
    /\ completion.pc = "done" /\ completion.backend.kind = "response"
    /\ completion.backend.status_code = 429
    /\ completion.backend.text.form = "not_json"
    /\ completion.backend.text.text = rate
    /\ completion.result.status_code = 429
    /\ completion.result.error = "Upstream service returned an error"

\* The second of two get_completion calls has ended, both for an error
\* response of the backend.
TwoErrorResponses ==
    /\ completion.pc = "done" /\ completion.earlier # None
    /\ completion.backend.kind = "response"
    /\ completion.backend.status_code >= 400
    /\ completion.earlier[1].backend.kind = "response"
    /\ completion.earlier[1].backend.status_code >= 400

C22_NoEventAfterStreamingStarted ==
    [][(\E i \in 1..Len(stream.sent) : stream.sent[i].kind = "chunk")
        => /\ Len(stream'.sent) >= Len(stream.sent)
           /\ SubSeq(stream'.sent, 1, Len(stream.sent)) = stream.sent
           /\ \A i \in 1..Len(stream'.sent) : stream'.sent[i].kind = "chunk"
           /\ stream'.failed # "none"
                => stream'.sent = stream.sent /\ stream'.pc = "done"]_vars

\* The backend's stream broke after its first chunk and before its second,
\* and the generator has ended.
C22_Witness ==
    /\ stream.pc = "done" /\ stream.failed # "none"
    /\ stream.upstream.kind = "stream"
    /\ Len(stream.upstream.chunks) = 2
    /\ stream.sent = <<chunk_item(stream.upstream.chunks[1])>>

C24_YieldedIsPrefix ==
    stream.upstream.kind = "stream"
        => LET chunks == stream.upstream.chunks IN
            /\ Len(stream.sent) <= Len(chunks)
            /\ \A i \in 1..Len(stream.sent) : stream.sent[i] = chunk_item(chunks[i])
            /\ (stream.pc = "done" /\ stream.ended # "closed"
                    /\ stream.upstream.failure = "none")
                => Len(stream.sent) = Len(chunks)

\* C24 amended: on a 2xx response what stream_completion has yielded is a
\* prefix of the backend's chunks, all of them when the backend's stream has
\* ended and the generator was not closed before, or it is one error event
\* yielded for a failure before the first chunk.
C24_PrefixOrFirstFailureEvent ==
    stream.upstream.kind = "stream"
        => LET chunks == stream.upstream.chunks
               prefix ==
                /\ Len(stream.sent) <= Len(chunks)
                /\ \A i \in 1..Len(stream.sent) : stream.sent[i] = chunk_item(chunks[i])
               event_only ==
                /\ stream.consumed = 0 /\ stream.failed # "none"
                /\ stream.sent \in
                    {<<error_event(0, "Upstream service returned an error")>>,
                     <<error_event(0, "Failed to proxy request")>>} IN
            /\ prefix \/ event_only
            /\ (prefix /\ stream.pc = "done" /\ stream.ended # "closed"
                    /\ stream.upstream.failure = "none")
                => Len(stream.sent) = Len(chunks)

\* A 2xx response of two chunks has been relayed whole.
C24_Witness ==
    /\ stream.pc = "done" /\ stream.ended = "returned" /\ stream.failed = "none"
    /\ stream.upstream.kind = "stream"
    /\ Len(stream.upstream.chunks) = 2
    /\ stream.upstream.chunks[1] # stream.upstream.chunks[2]
    /\ stream.sent = <<chunk_item(stream.upstream.chunks[1]),
                       chunk_item(stream.upstream.chunks[2])>>

\* C25: a stream_completion call that has started and ended, by returning,
\* by raising or by being closed at a yield or at the await of a chunk, has
\* closed the response it opened once and has observed the duration once;
\* before its end it has not observed it, and a response is never closed
\* twice.
C25_ClosedAndFinalizedOnce ==
    /\ stream.finalized = IF stream.pc = "done" THEN 1 ELSE 0
    /\ stream.open => stream.closed = 0
    /\ stream.closed <= 1
    /\ stream.pc = "done"
        => /\ ~stream.open
           /\ stream.closed = IF stream.upstream.kind = "exception" THEN 0 ELSE 1

\* The generator has been closed at the yield of the first chunk.
C25_Witness ==
    /\ stream.pc = "done" /\ stream.ended = "closed"
    /\ Len(stream.sent) = 1 /\ stream.sent[1].kind = "chunk"
    /\ stream.closed = 1 /\ stream.finalized = 1

\* The token presented is the one the gateway issued.
PresentedIssued ==
    /\ bearer.pc = "verified" /\ bearer.presented.form # "empty"
    /\ bearer.issued # None /\ bearer.presented.token = bearer.issued[1]

C26_ValidityPart ==
    (bearer.pc = "verified" /\ bearer.presented.form # "empty")
        => LET token == bearer.presented.token
               valid ==
                /\ token.signature = encode(token.payload, MLPA_ACCESS_TOKEN_SECRET).signature
                /\ token.payload.iss = "mlpa"
                /\ token.payload.exp # None
                /\ bearer.at <= token.payload.exp[1] + bearer.leeway IN
            /\ valid => /\ bearer.result.outcome = "returned"
                        /\ bearer.result.sub = token.payload.sub
            /\ ~valid => /\ bearer.result.outcome = "raised"
                         /\ bearer.result.status_code = 401
            /\ (PresentedIssued /\ bearer.at < token.payload.exp[1]) => valid

\* The issued token was presented after its exp and was accepted.
C26_AcceptedAfterExpiry ==
    /\ PresentedIssued
    /\ bearer.at > bearer.issued[1].payload.exp[1]
    /\ bearer.result.outcome = "returned"

\* C27: POST /verify/play answers 200 with an access token exactly if what
\* Google decoded has a token payload whose request hash is SHA-256 of the
\* request's user_id, whose package name, if it names one, is the configured
\* one, whose app verdict is PLAY_RECOGNIZED and which has an allowed device
\* verdict; the token is one that extract_user_from_play_integrity_jwt
\* accepts for that user_id. In every other case the response is an error
\* without a token, and 401 whenever Google has answered with a JSON object
\* whose request details are not null.
C27_TokenOnlyForGoodVerdict ==
    play.pc = "done"
        => LET decoded == play.decoded
               response == play.response
               token_payload ==
                IF decoded.tokenPayloadExternal # None
                THEN decoded.tokenPayloadExternal ELSE decoded.tokenPayload
               details == token_payload[1].requestDetails
               good ==
                /\ decoded.kind = "object"
                /\ token_payload # None
                /\ details.kind = "object"
                /\ details.requestHash = sha256(play.user_id)
                /\ details.requestPackageName
                    \in {None, Row(""), Row(PLAY_INTEGRITY_PACKAGE_NAME)}
                /\ token_payload[1].appRecognitionVerdict = Row("PLAY_RECOGNIZED")
                /\ \E v \in token_payload[1].deviceRecognitionVerdict :
                        v \in ALLOWED_DEVICE_VERDICTS IN
            /\ good <=> response.access_token # None
            /\ good
                => /\ response.status_code = 200
                   /\ response.expires_in = MLPA_ACCESS_TOKEN_TTL_SECONDS
                   /\ \A leeway \in Leeways :
                        LET user == extract_user_from_play_integrity_jwt_at(
                                [form |-> "bearer", token |-> response.access_token[1]],
                                leeway, now) IN
                        user.outcome = "returned" /\ user.sub = play.user_id
            /\ ~good => response.status_code \in {401, 500, 502}
            /\ (~good /\ decoded.kind = "object"
                    /\ (token_payload # None => details.kind # "null"))
                => response.status_code = 401

\* A token was issued on the tokenPayload of a verdict without
\* tokenPayloadExternal.
C27_Witness ==
    /\ play.pc = "done"
    /\ play.decoded.kind = "object"
    /\ play.decoded.tokenPayloadExternal = None
    /\ play.response.status_code = 200
    /\ play.response.access_token # None
    /\ play.response.access_token[1].payload.sub = play.user_id

\* C28: fxa_auth returns the profile of the verification that was the first
\* to end with a profile, whatever the scope and whatever ended before it
\* with an exception, and it does so as soon as some verification gives a
\* profile; it raises 401 "Invalid FxA auth" exactly if the verification of
\* every scope has raised.
C28_FirstSuccessfulScope ==
    fxa.pc = "done"
        => LET gave(i) == fxa.verify_token[fxa.completed[i]] IN
            /\ fxa.result.kind = "profile"
                => \E i \in DOMAIN fxa.completed :
                    /\ fxa.completed[i] = fxa.result.scope
                    /\ gave(i) = "profile"
                    /\ \A j \in 1..(i - 1) : gave(j) = "exception"
            /\ fxa.result.kind = "HTTPException"
                <=> \A scope \in FXA_SCOPES : fxa.verify_token[scope] = "exception"
            /\ fxa.result.kind = "HTTPException"
                => /\ fxa.result.status_code = 401
                   /\ \A scope \in FXA_SCOPES : fxa.task[scope] = "done"
            /\ fxa.result.kind \in {"profile", "HTTPException"}

\* The verification of the last scope was the first to give a profile, the
\* one of the first scope gave one after it, and fxa_auth has returned the
\* profile of the last scope.
C28_Witness ==
    /\ fxa.pc = "done"
    /\ fxa.result.kind = "profile" /\ fxa.result.scope = MaxScopes
    /\ fxa.verify_token[1] = "profile" /\ fxa.task[1] = "done"
    /\ \E i, j \in DOMAIN fxa.completed :
        i < j /\ fxa.completed[i] = MaxScopes /\ fxa.completed[j] = 1

\* The request is a POST to /v1/chat/completions whose Content-Length
\* writes a number above MAX_REQUEST_SIZE_BYTES.
Oversized ==
    /\ http.request.path = "/v1/chat/completions" /\ http.request.method = "POST"
    /\ http.request.content_length # None
    /\ int(http.request.content_length[1]) # None
    /\ int(http.request.content_length[1])[1] > MAX_REQUEST_SIZE_BYTES

C31_ProductionRootWhenQaDisabled ==
    ~trust.APP_ATTEST_QA =>
        /\ \A procedure \in Procedures : \A s1, s2 \in Flags :
                /\ trust.config[procedure][s1] \in {"", "production"}
                /\ (trust.config[procedure][s1] # "" /\ trust.config[procedure][s2] # "")
                        => trust.config[procedure][s1] = trust.config[procedure][s2]
        /\ (trust.last.chain = "qa") => trust.last.status_code # 200

\* QA disabled: both procedures have verified under the header set to true
\* and under the header set to false, and a test-rooted credential sent with
\* the header set to true has just been refused.
C31_Witness ==
    /\ ~trust.APP_ATTEST_QA
    /\ \A procedure \in Procedures :
            /\ trust.config[procedure]["true"] = "production"
            /\ trust.config[procedure]["false"] = "production"
    /\ trust.last.chain = "qa"
    /\ trust.last.use_qa_certificates = "true"
    /\ trust.last.status_code = 403

\* The caches a PGService holds, in both dictionaries.
AllCaches ==
    {pg.stmt_caches[o] : o \in DOMAIN pg.stmt_caches}
        \cup {pg.stmt_caches_by_id[i] : i \in DOMAIN pg.stmt_caches_by_id}

\* The last n elements of s.
Last(s, n) == SubSeq(s, Len(s) - n + 1, Len(s))

RECURSIVE total(_, _)
total(table, keys) ==
    IF keys = {} THEN 0
    ELSE LET k == CHOOSE k \in keys : TRUE
         IN  Len(table[k].stmts) + total(table, keys \ {k})

\* The number of statements the service holds.
CachedStatements ==
    total(pg.stmt_caches, DOMAIN pg.stmt_caches)
        + total(pg.stmt_caches_by_id, DOMAIN pg.stmt_caches_by_id)

\* C32: every cache holds at most PG_PREPARED_STMT_CACHE_MAX_SIZE statements,
\* and the statements held by the service never number more than the live
\* connections times that maximum.
C32_CachesBoundedByLiveConnections ==
    /\ \A cache \in AllCaches : Len(cache.stmts) <= PG_PREPARED_STMT_CACHE_MAX_SIZE
    /\ CachedStatements <= Cardinality(pg.live) * PG_PREPARED_STMT_CACHE_MAX_SIZE

\* The part of C32 that holds: every cache holds at most the maximum, and
\* what it holds are the statements of the queries most recently asked
\* through it, least recent first.
C32_PerCachePart ==
    \A cache \in AllCaches :
        /\ Len(cache.stmts) <= PG_PREPARED_STMT_CACHE_MAX_SIZE
        /\ [i \in 1..Len(cache.stmts) |-> cache.stmts[i].query]
                = Last(cache.used, Len(cache.stmts))
        /\ Len(cache.stmts) < PG_PREPARED_STMT_CACHE_MAX_SIZE
                => Len(cache.stmts) = Len(cache.used)

\* The service holds more statements than the greatest number of connection
\* objects that ever exist together could account for.
C32_MoreThanAllConnections ==
    CachedStatements > MaxLive * PG_PREPARED_STMT_CACHE_MAX_SIZE

\* A full cache that has dropped a statement.
C32_Evicted ==
    \E cache \in AllCaches :
        /\ Len(cache.stmts) = PG_PREPARED_STMT_CACHE_MAX_SIZE
        /\ Len(cache.used) > PG_PREPARED_STMT_CACHE_MAX_SIZE

\* C36: the statement _get_prepared_statement(conn, query) returns was
\* prepared on conn.
C36_StatementOfItsConnection ==
    pg.call.returned # None => pg.call.returned[1].prepared_on = pg.call.conn.obj

\* The part of C36 that holds: with connection objects that can be weakly
\* referenced, the statement returned was prepared on conn.
C36_WeakPart ==
    (pg.weakrefable /\ pg.call.returned # None)
        => pg.call.returned[1].prepared_on = pg.call.conn.obj

\* A statement served from the cache to a later connection object.
C36_HitAfterReacquire ==
    /\ pg.call.returned # None
    /\ pg.call.hit
    /\ pg.created > 1

\* C33: every counter update of an assertion, whatever other requests for the
\* key do around it, leaves the stored counter at the greater of the stored
\* one and the one it submits: the counter never moves backwards and ends at
\* the maximum of the counters submitted.
C33_CounterEndsAtMaximum ==
    [][\A p \in Procs :
        (proc[p].pc = "assert_update" /\ proc'[p].pc = "done")
            => LET k == proc[p].key_id_b64
                   stored == public_keys[k].counter
               IN  /\ k \in DOMAIN public_keys'
                   /\ public_keys'[k].counter =
                        IF stored < proc[p].counter THEN proc[p].counter ELSE stored]_vars

\* The part of C33 that holds when storage calls may raise: a counter update
\* changes the stored counter only to the counter it submits, and only when
\* the stored one is strictly smaller.
C33_ConditionalPart ==
    [][\A p \in Procs :
        (proc[p].pc = "assert_update" /\ proc'[p].pc = "done")
            => LET k == proc[p].key_id_b64
               IN  /\ k \in DOMAIN public_keys'
                   /\ \/ public_keys'[k] = public_keys[k]
                      \/ /\ public_keys[k].counter < proc[p].counter
                         /\ public_keys'[k] =
                                [public_keys[k] EXCEPT !.counter = proc[p].counter]]_vars

\* C34: when validate_challenge returns True, the store holds no challenge
\* for its key at that moment, whether or not storage calls raise.
C34_TrueOnlyIfRemoved ==
    [][\A p \in Procs :
        (/\ proc[p].pc = "validate_delete" /\ proc'[p].pc = "done"
         /\ proc'[p].ret = "True")
            => proc[p].key_id_b64 \notin DOMAIN challenges']_vars

\* The part of C34 that holds: a validate_challenge whose read gave nothing,
\* because it raised or because there was no row, returns False.
C34_FailedReadPart ==
    [][\A p \in Procs :
        (/\ proc[p].pc = "validate_delete" /\ proc'[p].pc = "done"
         /\ proc[p].stored_challenge = None)
            => proc'[p].ret = "False"]_vars

\* C35: the value a generate_client_challenge call returns is the value the
\* store holds for its key at the moment the call returns.
C35_ReturnedIsStored ==
    [][\A p \in Procs :
        (proc[p].pc # "done" /\ proc'[p].pc = "done" /\ proc'[p].op = "issue")
            => /\ proc'[p].key_id_b64 \in DOMAIN challenges'
               /\ challenges'[proc'[p].key_id_b64].challenge = proc'[p].challenge]_vars

\* C35, two concurrent issue calls: one row per key can make only one value
\* validate, so two issue calls for one key that ran at the same time have
\* returned the same value.
C35_ConcurrentIssuesAgree ==
    \A p, q \in Procs :
        (/\ Overlapped(p, q)
         /\ Returned(p, "issue") /\ Returned(q, "issue")
         /\ proc[p].key_id_b64 = proc[q].key_id_b64)
            => proc[p].challenge = proc[q].challenge

\* C37: every customer get_or_create_user has created carries the budget
\* configured for the service type of the request it was created for.
C37_BudgetOfRequestServiceType ==
    \A u \in DOMAIN litellm.customers :
        litellm.customers[u].budget_id =
            user_feature_budget[litellm.customers[u].created_for].budget_id

\* The part of C37 that holds: a customer whose identity has no colon in it
\* carries the budget of the service type it was created for.
C37_PlainIdentityPart ==
    \A u \in DOMAIN litellm.customers :
        Len(split(u, ":")) = 2 =>
            litellm.customers[u].budget_id =
                user_feature_budget[litellm.customers[u].created_for].budget_id

\* A customer has been created for an identity with a colon in it.
C37_ColonIdentityCreated ==
    /\ litellm.call.was_created
    /\ Len(split(litellm.call.user_id, ":")) > 2

\* C38: when fxa_auth has returned a profile or raised its 401, every task
\* it created has ended: it has completed or it has been cancelled and
\* awaited; none is running or on its way to being cancelled.
C38_NoTaskPendingAtReturn ==
    fxa.pc = "done"
        => /\ fxa.result.kind \in {"profile", "HTTPException"}
           /\ \A scope \in FXA_SCOPES : fxa.task[scope] \in {"done", "cancelled"}
           /\ fxa.result.kind = "HTTPException"
                => \A scope \in FXA_SCOPES : fxa.task[scope] = "done"

\* fxa_auth has returned a profile after cancelling and awaiting the tasks
\* of the other scopes.
C38_Witness ==
    /\ fxa.pc = "done"
    /\ fxa.result.kind = "profile"
    /\ \A scope \in FXA_SCOPES \ {fxa.result.scope} : fxa.task[scope] = "cancelled"

====
